---- MODULE Spec2Model ----
(***************************************************************************)
(* Link-enrichment plugins of the 2i2c roadmap site.                       *)
(*                                                                         *)
(*  - the GitHub issue link plugin with the persisted cache, the batched   *)
(*    GraphQL lookup and the REST fallback (src/unnamed/part_001);         *)
(*  - the GitHub handle link plugin (src/unnamed/part_003).                *)
(*                                                                         *)
(* A document pass is an async function: it is cut at its awaits, one      *)
(* action per continuation.  Several passes share the module-level state   *)
(* of the plugin (issueCache, cacheReady, cacheDirty) and interleave at    *)
(* those awaits only.                                                      *)
(*                                                                         *)
(* Strings that the code takes apart are sequences of one-character (or    *)
(* one-token) strings; strings it only builds or compares are TLA+ strings.*)
(***************************************************************************)
EXTENDS Integers, Sequences, FiniteSets, TLC

VARIABLES
    issueCache,     \* part_001:10  Map cacheKey -> details
    cacheReady,     \* part_001:14  the load promise: "unset" | "pending" | "resolved"
    cacheDirty,     \* part_001:15
    disk,           \* the file CACHE_FILE as the file system holds it
    reads,          \* number of readFile(CACHE_FILE) calls made so far
    warned,         \* kinds of console.warn lines printed so far
    pc,             \* per pass: the await the pass is suspended on
    tree,           \* per pass: the document tree handed to the transform
    targets,        \* per pass: part_001:256
    missing,        \* per pass: part_001:203, 210
    misses,         \* per pass: the miss set handed to fetchIssuesGraphQL (part_001:209)
    repoChunks,     \* per pass: part_001:133
    chunkIdx,       \* per pass: position of the for loops at part_001:134 and 214
    payload,        \* per pass: part_001:52
    sent,           \* per pass: the remote requests issued so far, in order
    answers,        \* per pass: per request of sent answered so far, its outcome and
                    \*           the keys the response held an issue for
    thrown,         \* per pass: the error the transform rejected with, "" if none
    input,          \* per pass: the tree as it was handed in
    loaded,         \* what the load of the cache file found and did
    \* the handle link plugin (part_003:151-179)
    hpc,            \* the await the transform is suspended on
    htree,          \* the document tree
    file,           \* the vfile: resolved citation keys and messages
    textMentions,   \* part_003:154
    citeMentions,   \* part_003:155
    handledLabels,  \* part_003:153
    handles,        \* part_003:160, in insertion order
    handleIdx,      \* position of the for loop at part_003:170
    profiles,       \* part_003:169
    hsent,          \* the handles looked up so far, in order
    hthrown,        \* the error the transform rejected with, "" if none
    hinput,         \* the tree and the file as they were handed in
    \* the drivers that start one lookup task per link (part_002:93-102) or per
    \* unique issue (part_004:97-132) and await them together
    job,            \* the driver, the tree and cache it starts with, and what the
                    \* remote API does for each cache key
    tpc,            \* the await the transform is suspended on
    ttree,          \* the document tree
    tcache,         \* part_002:7, part_004:40  Map cacheKey -> details
    ttargets,       \* part_004:98 (the matching links, part_002:95-99)
    tasks,          \* the lookup tasks handed to Promise.all, in order
    tsent,          \* the cache keys of the HTTP requests issued so far, in order
    detailsMap      \* part_004:117

issueVars == <<issueCache, cacheReady, cacheDirty, disk, reads, warned, pc, tree,
               targets, missing, misses, repoChunks, chunkIdx, payload, sent,
               answers, thrown, input, loaded>>

handleVars == <<hpc, htree, file, textMentions, citeMentions, handledLabels, handles,
                handleIdx, profiles, hsent, hthrown, hinput>>

taskVars == <<job, tpc, ttree, tcache, ttargets, tasks, tsent, detailsMap>>

vars == <<issueVars, handleVars, taskVars>>

(***************************************************************************)
(* Bounds of the model.                                                    *)
(***************************************************************************)
MaxLinks == 2          \* nodes under the root of a document of Spec

MaxConcLinks == 1      \* nodes under the root of a document of SpecConc

MaxBatchRepos == 6     \* repositories linked by a document of SpecBatch

MaxHandleNodes == 2    \* nodes under the root of a handle document of Spec

MaxTaskLinks == 2      \* nodes under the root of a document of SpecTasks

Passes == {1, 2}       \* documents built by one process

(***************************************************************************)
(* Generic helpers.                                                        *)
(***************************************************************************)
Min(a, b) == IF a < b THEN a ELSE b

CeilDiv(a, b) == (a + b - 1) \div b

\* The concatenation of the sequences of seqs, halving so that long lists do
\* not nest deeply.
RECURSIVE Flatten(_)
Flatten(seqs) ==
    IF seqs = <<>> THEN <<>>
    ELSE IF Len(seqs) = 1 THEN seqs[1]
    ELSE LET h == Len(seqs) \div 2
         IN  Flatten(SubSeq(seqs, 1, h)) \o Flatten(SubSeq(seqs, h + 1, Len(seqs)))

Range(seq) == {seq[i] : i \in 1..Len(seq)}

\* The elements of a set of numbers in increasing order.
SortNums(S) ==
    [k \in 1..Cardinality(S) |-> CHOOSE x \in S : Cardinality({y \in S : y <= x}) = k]

\* Insertion order of a JS Set / Map built from seq: first occurrences, in order.
InsertionOrder(seq) ==
    LET firsts == {i \in 1..Len(seq) : \A j \in 1..(i - 1) : seq[j] # seq[i]}
        at == SortNums(firsts)
    IN  [k \in 1..Len(at) |-> seq[at[k]]]

RECURSIVE SumOver(_, _)
SumOver(S, f) ==
    IF S = {} THEN 0
    ELSE LET x == CHOOSE y \in S : TRUE IN f[x] + SumOver(S \ {x}, f)

(***************************************************************************)
(* Strings.  toLowerCase / toUpperCase on the state strings GitHub sends.  *)
(***************************************************************************)
toLowerCase(s) ==
    CASE s = "OPEN" -> "open"
      [] s = "CLOSED" -> "closed"
      [] s = "COMPLETED" -> "completed"
      [] s = "NOT_PLANNED" -> "not_planned"
      [] OTHER -> s

\* A conversion that leaves the case of its argument alone.
toUpperCase_asIs(s) == s

toUpperCase(s) ==
    CASE s = "open" -> "OPEN"
      [] s = "closed" -> "CLOSED"
      [] s = "completed" -> "COMPLETED"
      [] s = "not_planned" -> "NOT_PLANNED"
      [] OTHER -> s

(***************************************************************************)
(* URLs.  A link target is kept in the parts ISSUE_LINK_REGEX takes it     *)
(* apart into:  scheme-and-host  seg/seg/...  /kind/  digits  rest.        *)
(*   "https://github.com/acme/widgets/issues/042#c1"  is                   *)
(*   [host |-> "https://github.com/", segs |-> <<"acme","widgets">>,       *)
(*    kind |-> "issues", digits |-> <<0,4,2>>, rest |-> "#c1"]             *)
(* rest is "" or starts with the character that follows the digits.        *)
(***************************************************************************)
NoUrl == [host |-> "", segs |-> <<>>, kind |-> "", digits |-> <<>>, rest |-> ""]

IssueUrl(owner, name, digits, rest) ==
    [host |-> "https://github.com/", segs |-> <<owner, name>>, kind |-> "issues",
     digits |-> digits, rest |-> rest]

\* The suffixes (?:[/?#].*)? accepts.
SuffixOk == {"", "/", "?tab=x", "#c1"}

\* A variant of ISSUE_LINK_REGEX that accepts any path segment in the place of
\* "issues" (github.com/<owner>/<repo>/pull/42 as well).
ISSUE_LINK_REGEX_anyKind(url) ==
    /\ url.host = "https://github.com/"
    /\ Len(url.segs) = 2
    /\ \A i \in 1..Len(url.segs) : url.segs[i] # ""
    /\ Len(url.digits) >= 1
    /\ url.rest \in SuffixOk

\* part_001:8-9.  Whether url.match(ISSUE_LINK_REGEX) is non-null.
ISSUE_LINK_REGEX(url) ==
    /\ url.host = "https://github.com/"
    /\ Len(url.segs) = 2
    /\ \A i \in 1..Len(url.segs) : url.segs[i] # ""
    /\ url.kind = "issues"
    /\ Len(url.digits) >= 1
    /\ url.rest \in SuffixOk

\* match[1]
MatchSlug(url) == url.segs[1] \o "/" \o url.segs[2]

\* Number(match[2]): the decimal value of the digit string.
RECURSIVE Number(_)
Number(digits) ==
    IF digits = <<>> THEN 0
    ELSE 10 * Number(SubSeq(digits, 1, Len(digits) - 1)) + digits[Len(digits)]

\* `${repoSlug}#${issueNumber}`
cacheKey(repoSlug, issueNumber) == repoSlug \o "#" \o ToString(issueNumber)

KeyOf(r) == cacheKey(r.repoSlug, r.issueNumber)

(***************************************************************************)
(* Tree nodes.  Every node has the same fields; a field the node does not  *)
(* have holds the falsy value of its type ("" , <<>>, NoUrl).  hProps is   *)
(* <<>> when node.data or node.data.hProperties is missing and <<props>>   *)
(* otherwise, props a function from property names to values.  A class     *)
(* string is a sequence of tokens and " " (white space) items.  value,     *)
(* label and identifier are sequences of characters.                       *)
(***************************************************************************)
Node(id, type, children) ==
    [id |-> id, type |-> type, url |-> NoUrl, title |-> "", class |-> <<>>,
     hProps |-> <<>>, children |-> children, value |-> <<>>,
     label |-> <<>>, identifier |-> <<>>]

LinkNode(id, url, title, class, hProps) ==
    [Node(id, "link", <<>>) EXCEPT !.url = url, !.title = title,
                                   !.class = class, !.hProps = hProps]

\* part_001:17-25.  The link nodes with a url, in visit (pre-)order.
RECURSIVE visitLinks(_)
visitLinks(node) ==
    LET self == IF node.type = "link" /\ node.url # NoUrl THEN <<node>> ELSE <<>>
        kids == node.children
    IN  self \o Flatten([i \in 1..Len(kids) |-> visitLinks(kids[i])])

\* part_001:256-266.
Targets(root) ==
    LET links == visitLinks(root)
        hits == SelectSeq(links, LAMBDA n : ISSUE_LINK_REGEX(n.url))
    IN  [i \in 1..Len(hits) |->
            [node |-> hits[i].id,
             repoSlug |-> MatchSlug(hits[i].url),
             issueNumber |-> Number(hits[i].url.digits)]]

\* part_001:269.
Requests(tgts) ==
    [i \in 1..Len(tgts) |->
        [repoSlug |-> tgts[i].repoSlug, issueNumber |-> tgts[i].issueNumber]]

(***************************************************************************)
(* Class strings.                                                          *)
(***************************************************************************)
\* str.split(/\s+/).filter(Boolean): the maximal runs of non-space items.
RECURSIVE SplitWs(_, _)
SplitWs(str, cur) ==
    IF str = <<>> THEN (IF cur = "" THEN <<>> ELSE <<cur>>)
    ELSE IF Head(str) = " "
         THEN (IF cur = "" THEN <<>> ELSE <<cur>>) \o SplitWs(Tail(str), "")
         ELSE SplitWs(Tail(str), cur \o Head(str))

\* tokens.join(' ')
RECURSIVE JoinSp(_)
JoinSp(tokens) ==
    IF tokens = <<>> THEN <<>>
    ELSE IF Len(tokens) = 1 THEN tokens
    ELSE <<Head(tokens), " ">> \o JoinSp(Tail(tokens))

Prop(props, k) == IF k \in DOMAIN props THEN props[k] ELSE <<>>

DeleteProp(props, k) == [x \in DOMAIN props \ {k} |-> props[x]]

SetProp(props, k, v) == [x \in DOMAIN props \cup {k} |-> IF x = k THEN v ELSE props[x]]

\* part_001:219-248.
applyLinkMetadata(node, details) ==
    LET props0 == IF node.hProps = <<>> THEN <<>> ELSE node.hProps[1]
        first == IF Prop(props0, "class") # <<>> THEN Prop(props0, "class")
                 ELSE Prop(props0, "className")
        existingClasses == SplitWs(first \o <<" ">> \o node.class, "")
        merged == InsertionOrder(existingClasses \o
                     <<"github-issue-link", "github-issue-link--" \o details.state>>)
        classString == JoinSp(merged)
        p1 == SetProp(SetProp(props0, "class", classString), "className", classString)
        p2 == SetProp(p1, "data-state", details.state)
        p3 == IF details.state_reason # ""
              THEN SetProp(p2, "data-state-reason", details.state_reason)
              ELSE DeleteProp(p2, "data-state-reason")
        p4 == SetProp(p3, "data-issue-title", details.title)
    IN  [node EXCEPT
            !.hProps = <<p4>>,
            !.class = classString,
            !.title = IF node.title = ""
                      THEN details.title \o " (" \o toUpperCase(details.state) \o ")"
                      ELSE node.title]

\* part_001:272-277.  The tree with every target whose key is cached decorated.
RECURSIVE Decorate(_, _, _)
Decorate(node, tgts, cache) ==
    LET hit == {i \in 1..Len(tgts) : tgts[i].node = node.id /\ KeyOf(tgts[i]) \in DOMAIN cache}
        self == IF hit = {} THEN node
                ELSE applyLinkMetadata(node, cache[KeyOf(tgts[CHOOSE i \in hit : TRUE])])
    IN  [self EXCEPT !.children =
            [i \in 1..Len(node.children) |-> Decorate(node.children[i], tgts, cache)]]

(***************************************************************************)
(* The remote API.  What GitHub holds for an issue is a function of the    *)
(* repository and the number; whether a request fails is chosen by the     *)
(* environment at each response.                                           *)
(***************************************************************************)
RemoteIssue(repoSlug, issueNumber) ==
    [title |-> "Issue " \o cacheKey(repoSlug, issueNumber),
     state |-> IF issueNumber % 2 = 0 THEN "open" ELSE "closed",
     reason |-> IF issueNumber % 2 = 0 THEN "" ELSE "completed"]

\* The body of GET /repos/<slug>/issues/<n>.
RestData(repoSlug, issueNumber) ==
    LET r == RemoteIssue(repoSlug, issueNumber)
    IN  [title |-> r.title, state |-> r.state, state_reason |-> r.reason]

\* The object under an issue alias of a GraphQL response.
GraphQLData(repoSlug, issueNumber) ==
    LET r == RemoteIssue(repoSlug, issueNumber)
    IN  [title |-> r.title, state |-> toUpperCase(r.state),
         stateReason |-> toUpperCase(r.reason)]

\* part_001:81-85.
RestDetails(data) ==
    [title |-> data.title, state |-> toLowerCase(data.state),
     state_reason |-> data.state_reason]

\* part_001:159-165.
GraphQLDetails(issueData) ==
    [title |-> issueData.title, state |-> toLowerCase(issueData.state),
     state_reason |-> IF issueData.stateReason # ""
                      THEN toLowerCase(issueData.stateReason) ELSE ""]

(***************************************************************************)
(* The cache.                                                              *)
(***************************************************************************)
\* Map.set
MapSet(map, k, v) == [x \in DOMAIN map \cup {k} |-> IF x = k THEN v ELSE map[x]]

EmptyMap == [x \in {} |-> 0]

\* part_001:57-62, the new value of issueCache.  details is never falsy at its
\* two call sites (an object literal), so the guard at line 58 never returns.
cacheIssueDetails(cache, repoSlug, issueNumber, details) ==
    MapSet(cache, cacheKey(repoSlug, issueNumber), details)

\* The file on disk: kind is
\*   "absent"      no such file: readFile rejects with code ENOENT
\*   "unreadable"  readFile rejects with another code (EACCES, EISDIR, ...)
\*   "badjson"     JSON.parse throws a SyntaxError
\*   "null"        the JSON text null
\*   "number"      a JSON number (or boolean)
\*   "array"       a JSON array, its elements in arr
\*   "object"      a JSON object, its members in map
DiskFile(kind, map, arr) == [kind |-> kind, map |-> map, arr |-> arr]

\* Whether `await readFile` or JSON.parse or Object.entries throws (part_001:33-35).
LoadThrows(f) == f.kind \in {"absent", "unreadable", "badjson", "null"}

\* error.code !== 'ENOENT' (part_001:39)
LoadWarns(f) == f.kind \in {"unreadable", "badjson", "null"}

\* Object.entries(parsed) of a value that does not throw (part_001:35): the own
\* enumerable properties: the members of an object, the indices of an array,
\* nothing for a number.
ObjectEntries(f) ==
    CASE f.kind = "object" -> f.map
      [] f.kind = "array" -> [k \in {ToString(i - 1) : i \in 1..Len(f.arr)} |->
                                   f.arr[CHOOSE i \in 1..Len(f.arr) : ToString(i - 1) = k]]
      [] OTHER -> EmptyMap

\* part_001:35-37.
LoadInto(cache, f) ==
    LET entries == ObjectEntries(f)
    IN  [k \in DOMAIN cache \cup DOMAIN entries |->
            IF k \in DOMAIN entries THEN entries[k] ELSE cache[k]]

(***************************************************************************)
(* Batching (part_001:93-133, 177-198).                                    *)
(***************************************************************************)
MAX_REPOS_PER_QUERY == 5

MAX_ISSUES_PER_REPO == 20

\* A variant of chunkArray that cuts the array into slices one element longer.
chunkArray_wide(array, chunkSize) ==
    [c \in 1..CeilDiv(Len(array), chunkSize + 1) |->
        SubSeq(array, (c - 1) * (chunkSize + 1) + 1, Min(c * (chunkSize + 1), Len(array)))]

\* part_001:93-99.  The c-th pass of the loop has i = (c - 1) * chunkSize and
\* pushes array.slice(i, i + chunkSize).
chunkArray(array, chunkSize) ==
    [c \in 1..CeilDiv(Len(array), chunkSize) |->
        SubSeq(array, (c - 1) * chunkSize + 1, Min(c * chunkSize, Len(array)))]

\* part_001:116-122: the keys of repoToNumbers in insertion order, and the set
\* under a key.
RepoOrder(requests) ==
    InsertionOrder([i \in 1..Len(requests) |-> requests[i].repoSlug])

NumbersOf(requests, repoSlug) ==
    {requests[i].issueNumber : i \in {j \in 1..Len(requests) : requests[j].repoSlug = repoSlug}}

\* part_001:124-131.
RepoEntries(requests) ==
    LET order == RepoOrder(requests)
        entriesOf(repoSlug) ==
            LET chunks == chunkArray(SortNums(NumbersOf(requests, repoSlug)),
                                     MAX_ISSUES_PER_REPO)
            IN  [c \in 1..Len(chunks) |-> [repoSlug |-> repoSlug, numbers |-> chunks[c]]]
    IN  Flatten([r \in 1..Len(order) |-> entriesOf(order[r])])

\* part_001:133.
RepoChunks(requests) == chunkArray(RepoEntries(requests), MAX_REPOS_PER_QUERY)

\* A variant of buildGraphQLQuery whose repository alias is the same for every
\* entry of the query, so that entries of one query share alias paths and the
\* later entry overwrites the earlier one in the alias map.
buildGraphQLQuery_oneRepoAlias(entries) ==
    LET aliases == UNION {{<<0, j - 1>> : j \in 1..Len(entries[i].numbers)} :
                          i \in 1..Len(entries)}
        last(a) == CHOOSE i \in 1..Len(entries) :
                      /\ a[2] + 1 <= Len(entries[i].numbers)
                      /\ \A k \in (i + 1)..Len(entries) : a[2] + 1 > Len(entries[k].numbers)
    IN  [a \in aliases |->
            [repoSlug |-> entries[last(a)].repoSlug,
             issueNumber |-> entries[last(a)].numbers[a[2] + 1]]]

\* part_001:177-198.  The alias map of one query: repo_<i>.issue_<j> is <<i, j>>.
\* The query text names, per alias, the same repository and number.
buildGraphQLQuery(entries) ==
    LET aliases == UNION {{<<i - 1, j - 1>> : j \in 1..Len(entries[i].numbers)} :
                          i \in 1..Len(entries)}
    IN  [a \in aliases |->
            [repoSlug |-> entries[a[1] + 1].repoSlug,
             issueNumber |-> entries[a[1] + 1].numbers[a[2] + 1]]]

\* An alias no query of this model generates.
ForeignAlias == <<99, 0>>

\* A variant of StoreResponse without the test of issueData: an alias the
\* response holds null for is stored as well.
StoreResponse_nullToo(cache, aliasMap, data) ==
    LET stored == {a \in DOMAIN data : a \in DOMAIN aliasMap}
        keyed == {<<KeyOf(aliasMap[a]), aliasMap[a]>> : a \in stored}
        new == [k \in {q[1] : q \in keyed} |->
                  LET target == (CHOOSE q \in keyed : q[1] = k)[2]
                  IN  GraphQLDetails(GraphQLData(target.repoSlug, target.issueNumber))]
    IN  new @@ cache

\* part_001:153-168.  data maps the aliases of a response to "ok" (an issue
\* object) or "null"; an alias not in its domain is absent from the response.
\* The aliases of one query name distinct (repository, number) pairs, so the
\* order of the cacheIssueDetails calls does not show in the result.
StoreResponse(cache, aliasMap, data) ==
    LET stored == {a \in DOMAIN data : a \in DOMAIN aliasMap /\ data[a] = "ok"}
        keyed == {<<KeyOf(aliasMap[a]), aliasMap[a]>> : a \in stored}
        new == [k \in {q[1] : q \in keyed} |->
                  LET target == (CHOOSE q \in keyed : q[1] = k)[2]
                  IN  GraphQLDetails(GraphQLData(target.repoSlug, target.issueNumber))]
    IN  new @@ cache

\* part_001:203-206, 210-213.
StillMissing(requests, cache) ==
    SelectSeq(requests, LAMBDA r : KeyOf(r) \notin DOMAIN cache)

(***************************************************************************)
(* The environment of a run: the outcomes the network and the file system  *)
(* may produce.                                                            *)
(*   gql    "throw"    fetch rejects (transport error)                     *)
(*          "notok"    non-success HTTP status                             *)
(*          "badjson"  response.json() rejects                             *)
(*          "errors"   a payload with errors and without data              *)
(*          "nodata"   a payload without data and without errors           *)
(*          "data"     a payload with data                                 *)
(*          "dataErrors"  a payload with data and errors                   *)
(*   alias  what a data payload holds per alias: "ok", "null", "absent"    *)
(*   foreign  whether a data payload also holds an alias nobody asked for  *)
(*   rest   "throw", "notok", "badjson" (json() rejects or yields null),   *)
(*          "ok"                                                           *)
(*   fs     "ok", "fail" for mkdir and writeFile                           *)
(***************************************************************************)
FullEnv ==
    [gql |-> {"throw", "notok", "badjson", "errors", "nodata", "data", "dataErrors"},
     alias |-> {"ok", "null", "absent"},
     foreign |-> {FALSE, TRUE},
     rest |-> {"throw", "notok", "badjson", "ok"},
     fs |-> {"ok", "fail"}]

GraphQLRequest(chunk) == [kind |-> "graphql", entries |-> chunk, key |-> ""]

RestRequest(r) == [kind |-> "rest", entries |-> <<>>, key |-> KeyOf(r)]

\* payload.data of a response: res gives the outcome per generated alias.
ResponseData(aliasMap, res, foreign) ==
    LET present == {a \in DOMAIN aliasMap : res[a] # "absent"}
    IN  [a \in present \cup (IF foreign THEN {ForeignAlias} ELSE {}) |->
            IF a \in present THEN res[a] ELSE "ok"]

\* A variant of StartsRead that looks at whether the load has finished instead of
\* whether it has been started.
StartsRead_unlessResolved(ready) == ready # "resolved"

\* part_001:28-30: whether this call of loadPersistentCache starts the read.
StartsRead(ready) == ready = "unset"

\* A variant of LoopGoesOn that leaves the loop at the first chunk that fails.
LoopGoesOn_break(outcome, idx, len) == idx < len /\ outcome \in {"data", "dataErrors"}

\* part_001:134, 146, 152, 169-173: whether the loop over repoChunks takes another
\* turn after a response of this outcome.  `continue` and the catch inside the
\* loop body both lead to the next chunk.
LoopGoesOn(outcome, idx, len) == idx < len

\* A caller that goes on without waiting for the load promise.
LoadAwaited_not(ready) == TRUE

\* part_001:202: `await loadPersistentCache()` lets the caller go on once the
\* load promise is resolved.
LoadAwaited(ready) == ready = "resolved"

\* A flush that writes whether or not anything was stored.
SaveWrites_always(dirty) == TRUE

\* part_001:50: whether savePersistentCache goes on to write.
SaveWrites(dirty) == dirty

(***************************************************************************)
(* The transform of part_001:255-280, one action per continuation.         *)
(***************************************************************************)
\* part_001:256-270, 200-202, 27-31, up to `await loadPersistentCache()`.
Scan(p) ==
    /\ pc[p] = "start"
    /\ LET tgts == Targets(tree[p])
       IN  /\ targets' = [targets EXCEPT ![p] = tgts]
           /\ IF Len(tgts) = 0
              THEN /\ pc' = [pc EXCEPT ![p] = "awaitEnsure"]
                   /\ UNCHANGED <<cacheReady, reads>>
              ELSE /\ pc' = [pc EXCEPT ![p] = "awaitLoad"]
                   /\ cacheReady' = IF StartsRead(cacheReady) THEN "pending" ELSE cacheReady
                   /\ reads' = IF StartsRead(cacheReady) THEN reads + 1 ELSE reads
    /\ UNCHANGED <<issueCache, cacheDirty, disk, warned, tree, missing, misses,
                   repoChunks, chunkIdx, payload, sent, answers, thrown, input, loaded>>
    /\ UNCHANGED handleVars
    /\ UNCHANGED taskVars

\* part_001:33-44: readFile settles and the load promise resolves.
ReadDone ==
    /\ cacheReady = "pending"
    /\ cacheReady' = "resolved"
    /\ issueCache' = IF LoadThrows(disk) THEN issueCache ELSE LoadInto(issueCache, disk)
    /\ warned' = IF LoadWarns(disk) THEN warned \cup {"read-cache"} ELSE warned
    /\ loaded' = [kind |-> disk.kind,
                  keys |-> DOMAIN issueCache' \ DOMAIN issueCache,
                  warned |-> LoadWarns(disk)]
    /\ UNCHANGED <<cacheDirty, disk, reads, pc, tree, targets, missing, misses,
                   repoChunks, chunkIdx, payload, sent, answers, thrown, input>>
    /\ UNCHANGED handleVars
    /\ UNCHANGED taskVars

\* part_001:203-209, 105-141: the first probe of the cache and the first
\* batched request.
AfterLoad(p) ==
    /\ pc[p] = "awaitLoad"
    /\ LoadAwaited(cacheReady)
    /\ LET miss == StillMissing(Requests(targets[p]), issueCache)
       IN  /\ missing' = [missing EXCEPT ![p] = miss]
           /\ IF miss = <<>>
              THEN /\ pc' = [pc EXCEPT ![p] = "awaitEnsure"]
                   /\ UNCHANGED <<misses, repoChunks, chunkIdx, sent>>
              ELSE /\ pc' = [pc EXCEPT ![p] = "awaitGraphQL"]
                   /\ misses' = [misses EXCEPT ![p] = miss]
                   /\ repoChunks' = [repoChunks EXCEPT ![p] = RepoChunks(miss)]
                   /\ chunkIdx' = [chunkIdx EXCEPT ![p] = 1]
                   /\ sent' = [sent EXCEPT ![p] =
                                 Append(@, GraphQLRequest(RepoChunks(miss)[1]))]
    /\ UNCHANGED <<issueCache, cacheReady, cacheDirty, disk, reads, warned, tree,
                   targets, payload, answers, thrown, input, loaded>>
    /\ UNCHANGED handleVars
    /\ UNCHANGED taskVars

\* part_001:134-174: one turn of the loop over repoChunks, from the response of
\* the request in flight to the next request (or to the return).  Nothing of
\* the shared state is read or written between `await fetch` and
\* `await response.json()`, so the two awaits are one step.
GraphQLResponse(p, E) ==
    /\ pc[p] = "awaitGraphQL"
    /\ LET aliasMap == buildGraphQLQuery(repoChunks[p][chunkIdx[p]])
           goOn(outcome) ==
               IF LoopGoesOn(outcome, chunkIdx[p], Len(repoChunks[p]))
               THEN /\ chunkIdx' = [chunkIdx EXCEPT ![p] = @ + 1]
                    /\ sent' = [sent EXCEPT ![p] =
                                  Append(@, GraphQLRequest(repoChunks[p][chunkIdx[p] + 1]))]
                    /\ UNCHANGED pc
               ELSE /\ pc' = [pc EXCEPT ![p] = "awaitBatch"]
                    /\ UNCHANGED <<chunkIdx, sent>>
           noted(outcome, keys) ==
               answers' = [answers EXCEPT ![p] =
                             Append(@, [outcome |-> outcome, keys |-> keys])]
       IN  \E outcome \in E.gql :
             /\ goOn(outcome)
             /\ \/ /\ outcome \in {"throw", "badjson"}
                   /\ warned' = warned \cup {"graphql-error"}
                   /\ noted(outcome, {})
                   /\ UNCHANGED <<issueCache, cacheDirty>>
                \/ /\ outcome = "notok"
                   /\ warned' = warned \cup {"graphql-failed"}
                   /\ noted(outcome, {})
                   /\ UNCHANGED <<issueCache, cacheDirty>>
                \/ /\ outcome = "errors"
                   /\ warned' = warned \cup {"graphql-errors"}
                   /\ noted(outcome, {})
                   /\ UNCHANGED <<issueCache, cacheDirty>>
                \/ /\ outcome = "nodata"
                   /\ noted(outcome, {})
                   /\ UNCHANGED <<issueCache, cacheDirty, warned>>
                \/ /\ outcome \in {"data", "dataErrors"}
                   /\ warned' = IF outcome = "dataErrors"
                                THEN warned \cup {"graphql-errors"} ELSE warned
                   /\ \E res \in [DOMAIN aliasMap -> E.alias], foreign \in E.foreign :
                        LET data == ResponseData(aliasMap, res, foreign)
                        IN  /\ issueCache' = StoreResponse(issueCache, aliasMap, data)
                            /\ cacheDirty' = (cacheDirty \/ \E a \in DOMAIN aliasMap :
                                                                res[a] = "ok")
                            /\ noted(outcome, {KeyOf(aliasMap[a]) :
                                                 a \in {b \in DOMAIN aliasMap : res[b] = "ok"}})
    /\ UNCHANGED <<cacheReady, disk, reads, tree, targets, missing, misses,
                   repoChunks, payload, thrown, input, loaded>>
    /\ UNCHANGED handleVars
    /\ UNCHANGED taskVars

\* part_001:210-215: the second probe and the first fallback request.
AfterBatch(p) ==
    /\ pc[p] = "awaitBatch"
    /\ LET miss == StillMissing(missing[p], issueCache)
       IN  /\ missing' = [missing EXCEPT ![p] = miss]
           /\ IF miss = <<>>
              THEN /\ pc' = [pc EXCEPT ![p] = "awaitEnsure"]
                   /\ UNCHANGED <<chunkIdx, sent>>
              ELSE /\ pc' = [pc EXCEPT ![p] = "awaitREST"]
                   /\ chunkIdx' = [chunkIdx EXCEPT ![p] = 1]
                   /\ sent' = [sent EXCEPT ![p] = Append(@, RestRequest(miss[1]))]
    /\ UNCHANGED <<issueCache, cacheReady, cacheDirty, disk, reads, warned, tree,
                   targets, misses, repoChunks, payload, answers, thrown, input, loaded>>
    /\ UNCHANGED handleVars
    /\ UNCHANGED taskVars

\* part_001:64-87, 214-216: one turn of the fallback loop.  An error thrown by
\* fetch or by response.json() is caught nowhere: it rejects fetchIssueREST,
\* ensureIssueDetails and the transform.
RESTResponse(p, E) ==
    /\ pc[p] = "awaitREST"
    /\ LET r == missing[p][chunkIdx[p]]
           goOn == IF chunkIdx[p] < Len(missing[p])
                   THEN /\ chunkIdx' = [chunkIdx EXCEPT ![p] = @ + 1]
                        /\ sent' = [sent EXCEPT ![p] =
                                      Append(@, RestRequest(missing[p][chunkIdx[p] + 1]))]
                        /\ UNCHANGED pc
                   ELSE /\ pc' = [pc EXCEPT ![p] = "awaitEnsure"]
                        /\ UNCHANGED <<chunkIdx, sent>>
       IN  \E outcome \in E.rest :
             /\ answers' = [answers EXCEPT ![p] =
                              Append(@, [outcome |-> outcome,
                                         keys |-> IF outcome = "ok" THEN {KeyOf(r)} ELSE {}])]
             /\ \/ /\ outcome \in {"throw", "badjson"}
                   /\ pc' = [pc EXCEPT ![p] = "rejected"]
                   /\ thrown' = [thrown EXCEPT ![p] =
                                    IF outcome = "throw" THEN "fetch" ELSE "response.json"]
                   /\ UNCHANGED <<issueCache, cacheDirty, warned, chunkIdx, sent>>
                \/ /\ outcome = "notok"
                   /\ warned' = warned \cup {"rest-failed"}
                   /\ UNCHANGED <<issueCache, cacheDirty, thrown>>
                   /\ goOn
                \/ /\ outcome = "ok"
                   /\ issueCache' = cacheIssueDetails(issueCache, r.repoSlug, r.issueNumber,
                                        RestDetails(RestData(r.repoSlug, r.issueNumber)))
                   /\ cacheDirty' = TRUE
                   /\ UNCHANGED <<warned, thrown>>
                   /\ goOn
    /\ UNCHANGED <<cacheReady, disk, reads, tree, targets, missing, misses,
                   repoChunks, payload, input, loaded>>
    /\ UNCHANGED handleVars
    /\ UNCHANGED taskVars

\* part_001:272-279, 49-51: the rewrite of the tree and the start of the save.
Rewrite(p) ==
    /\ pc[p] = "awaitEnsure"
    /\ tree' = [tree EXCEPT ![p] = Decorate(@, targets[p], issueCache)]
    /\ pc' = [pc EXCEPT ![p] = IF SaveWrites(cacheDirty) THEN "awaitMkdir" ELSE "done"]
    /\ UNCHANGED <<issueCache, cacheReady, cacheDirty, disk, reads, warned, targets,
                   missing, misses, repoChunks, chunkIdx, payload, sent, answers,
                   thrown, input, loaded>>
    /\ UNCHANGED handleVars
    /\ UNCHANGED taskVars

\* part_001:51-53: mkdir settles; the payload is taken and writeFile called.
\* An error of mkdir is caught nowhere.
MkdirDone(p, E) ==
    /\ pc[p] = "awaitMkdir"
    /\ \E outcome \in E.fs :
         \/ /\ outcome = "ok"
            /\ payload' = [payload EXCEPT ![p] = issueCache]
            /\ pc' = [pc EXCEPT ![p] = "awaitWrite"]
            /\ UNCHANGED thrown
         \/ /\ outcome = "fail"
            /\ pc' = [pc EXCEPT ![p] = "rejected"]
            /\ thrown' = [thrown EXCEPT ![p] = "mkdir"]
            /\ UNCHANGED payload
    /\ UNCHANGED <<issueCache, cacheReady, cacheDirty, disk, reads, warned, tree,
                   targets, missing, misses, repoChunks, chunkIdx, sent, answers,
                   input, loaded>>
    /\ UNCHANGED handleVars
    /\ UNCHANGED taskVars

\* part_001:53-54: writeFile settles.  An error of writeFile is caught nowhere.
WriteDone(p, E) ==
    /\ pc[p] = "awaitWrite"
    /\ \E outcome \in E.fs :
         \/ /\ outcome = "ok"
            /\ disk' = DiskFile("object", payload[p], <<>>)
            /\ cacheDirty' = FALSE
            /\ pc' = [pc EXCEPT ![p] = "done"]
            /\ UNCHANGED thrown
         \/ /\ outcome = "fail"
            /\ pc' = [pc EXCEPT ![p] = "rejected"]
            /\ thrown' = [thrown EXCEPT ![p] = "writeFile"]
            /\ UNCHANGED <<disk, cacheDirty>>
    /\ UNCHANGED <<issueCache, cacheReady, reads, warned, tree, targets, missing,
                   misses, repoChunks, chunkIdx, payload, sent, answers, input, loaded>>
    /\ UNCHANGED handleVars
    /\ UNCHANGED taskVars

(***************************************************************************)
(* The handle link plugin (src/unnamed/part_003).                          *)
(***************************************************************************)
UpperChars == <<"A", "B", "C", "D", "E", "F", "G", "H", "I", "J", "K", "L", "M",
                "N", "O", "P", "Q", "R", "S", "T", "U", "V", "W", "X", "Y", "Z">>

LowerChars == <<"a", "b", "c", "d", "e", "f", "g", "h", "i", "j", "k", "l", "m",
                "n", "o", "p", "q", "r", "s", "t", "u", "v", "w", "x", "y", "z">>

DigitChars == {"0", "1", "2", "3", "4", "5", "6", "7", "8", "9"}

AlnumChars == Range(UpperChars) \cup Range(LowerChars) \cup DigitChars

\* [A-Za-z0-9]
IsAlnum(c) == c \in AlnumChars

\* [A-Za-z0-9-]
IsHandleChar(c) == IsAlnum(c) \/ c = "-"

\* \s
WhiteSpace == {" ", "\t", "\n"}

UpperSet == Range(UpperChars)

CharLower(c) ==
    IF c \in UpperSet
    THEN LowerChars[CHOOSE i \in 1..Len(UpperChars) : UpperChars[i] = c]
    ELSE c

\* String.prototype.toLowerCase on a sequence of characters.
LowerCase(str) == [i \in 1..Len(str) |-> CharLower(str[i])]

\* str.slice(from, to) for 0 <= from.
Slice(str, from, to) == SubSeq(str, from + 1, Min(to, Len(str)))

\* The TLA+ string with the characters of str.
RECURSIVE StrOf(_)
StrOf(str) == IF str = <<>> THEN "" ELSE Head(str) \o StrOf(Tail(str))

\* The {0,37} of HANDLE_REGEX and SIMPLE_HANDLE (part_003:1-2).
MaxMiddle == 37

\* part_003:1, group 2 matched at the (1-based) position i: the length of the
\* longest [A-Za-z0-9](?:[A-Za-z0-9-]{0,37}[A-Za-z0-9])? that starts there, 0 if
\* none does.  The quantifiers are greedy and backtrack.
HandleLenAt(value, i) ==
    IF i > Len(value) \/ ~IsAlnum(value[Min(i, Len(value))]) THEN 0
    ELSE LET most == Min(MaxMiddle + 2, Len(value) - i + 1)
             stops == {L \in 2..most : ~IsHandleChar(value[i + L - 1])}
             run == IF stops = {} THEN most
                    ELSE (CHOOSE L \in stops : \A M \in stops : L <= M) - 1
             ends == {L \in 2..run : IsAlnum(value[i + L - 1])}
         IN  IF ends = {} THEN 1
             ELSE CHOOSE L \in ends : \A M \in ends : M <= L

\* part_003:1, group 1 of a match that starts at position i: its length, or -1
\* when HANDLE_REGEX does not match at i.  ^ matches at the start of the string
\* only (no m flag).
GroupOneAt(value, i) ==
    IF i = 1 /\ value[1] = "@" /\ HandleLenAt(value, 2) > 0 THEN 0
    ELSE IF /\ i + 1 <= Len(value)
            /\ value[i] \in WhiteSpace \cup {"(", "["}
            /\ value[i + 1] = "@"
            /\ HandleLenAt(value, i + 2) > 0 THEN 1
    ELSE -1

\* HANDLE_REGEX.exec(value) with the given lastIndex (0-based): the leftmost
\* match at or after it.  index is -1 for null.
Exec(value, lastIndex) ==
    LET at == {i \in (lastIndex + 1)..Len(value) : GroupOneAt(value, i) >= 0}
    IN  IF at = {} THEN [index |-> -1, g1 |-> 0, handle |-> <<>>, lastIndex |-> 0]
        ELSE LET i == CHOOSE x \in at : \A y \in at : x <= y
                 g == GroupOneAt(value, i)
                 L == HandleLenAt(value, i + g + 1)
             IN  [index |-> i - 1, g1 |-> g,
                  handle |-> SubSeq(value, i + g + 1, i + g + L),
                  lastIndex |-> i - 1 + g + 1 + L]

\* A hit placed at the start of the match, prefix character included.
Hit_atIndex(value, match) ==
    [start |-> match.index,
     end |-> match.index + Len(match.handle) + 1,
     handle |-> match.handle,
     raw |-> Slice(value, match.index, match.index + Len(match.handle) + 1)]

\* part_003:31-35: the hit of a match.
Hit(value, match) ==
    [start |-> match.index + match.g1,
     end |-> match.index + match.g1 + Len(match.handle) + 1,
     handle |-> match.handle,
     raw |-> Slice(value, match.index + match.g1,
                   match.index + match.g1 + Len(match.handle) + 1)]

\* part_003:28-36: the loop, from the given lastIndex on.
RECURSIVE HitsFrom(_, _, _)
HitsAfter(value, resolved, match) ==
    IF match.index < 0 THEN <<>>
    ELSE (IF LowerCase(match.handle) \in resolved THEN <<>> ELSE <<Hit(value, match)>>)
         \o HitsFrom(value, resolved, match.lastIndex)

HitsFrom(value, resolved, lastIndex) == HitsAfter(value, resolved, Exec(value, lastIndex))

\* part_003:2.  SIMPLE_HANDLE.test(handle)
SIMPLE_HANDLE(handle) ==
    /\ Len(handle) >= 1
    /\ Len(handle) <= MaxMiddle + 2
    /\ IsAlnum(handle[1])
    /\ Len(handle) >= 2 => /\ IsAlnum(handle[Len(handle)])
                           /\ \A j \in 2..(Len(handle) - 1) : IsHandleChar(handle[j])

\* part_003:3.
SKIP_PARENTS == {"link", "definition", "inlineCode", "code"}

\* The parent of the root (null).
NoParent == [id |-> -2, type |-> ""]

\* part_003:5-11.  The (node, parent) pairs in the order of the callbacks.
RECURSIVE visit(_, _)
visit(node, parent) ==
    <<[node |-> node, parent |-> parent]>>
    \o Flatten([i \in 1..Len(node.children) |->
                  visit(node.children[i], [id |-> node.id, type |-> node.type])])

\* part_003:13-18.
gatherResolvedHandles(f) == {LowerCase(key) : key \in f.citeKeys}

\* part_003:23-37: whether the callback reaches the loop over the matches.
Searched(v) ==
    /\ v.node.type = "text"
    /\ "@" \in Range(v.node.value)
    /\ v.parent.type \notin SKIP_PARENTS

\* part_003:20-42.
collectTextMentions(root, resolved) ==
    LET searched == SelectSeq(visit(root, NoParent), Searched)
        found == [i \in 1..Len(searched) |->
                    [node |-> searched[i].node.id, parent |-> searched[i].parent.id,
                     hits |-> HitsFrom(searched[i].node.value, resolved, 0),
                     value |-> searched[i].node.value]]
    IN  SelectSeq(found, LAMBDA m : m.hits # <<>>)

\* A node the plugin creates: it is never looked up again.
NewId == -1

TextNode(id, value) == [Node(id, "text", <<>>) EXCEPT !.value = value]

\* parent.children.splice(index, 1, ...parts) with index = indexOf(child), in the
\* node `parentId` of the tree.  Nothing changes when the parent is no longer part
\* of the tree or the child no longer among its children.
RECURSIVE ReplaceChild(_, _, _, _)
ReplaceChild(node, parentId, childId, parts) ==
    IF node.id = parentId
    THEN LET at == {i \in 1..Len(node.children) : node.children[i].id = childId}
         IN  IF at = {} THEN node
             ELSE LET i == CHOOSE x \in at : \A y \in at : x <= y
                  IN  [node EXCEPT !.children =
                          SubSeq(node.children, 1, i - 1) \o parts
                          \o SubSeq(node.children, i + 1, Len(node.children))]
    ELSE [node EXCEPT !.children =
            [i \in 1..Len(node.children) |->
                ReplaceChild(node.children[i], parentId, childId, parts)]]

\* part_003:49-52: label, handle of a cite node.
CiteLabel(node) == IF node.label # <<>> THEN node.label ELSE node.identifier

CiteHandle(node) ==
    LET raw == IF node.identifier # <<>> THEN node.identifier ELSE CiteLabel(node)
    IN  IF raw # <<>> /\ Head(raw) = "@" THEN Tail(raw) ELSE raw

\* part_003:44-65: the cite nodes the callback does not return early on.
CiteSeen(root) ==
    SelectSeq(visit(root, NoParent), LAMBDA v :
        /\ v.node.type = "cite"
        /\ v.parent # NoParent
        /\ CiteHandle(v.node) # <<>>)

\* part_003:54.
CiteDemoted(node, resolved) ==
    \/ ~SIMPLE_HANDLE(CiteHandle(node))
    \/ LowerCase(CiteHandle(node)) \in resolved

\* part_003:53.
CiteHandled(root) ==
    LET seen == CiteSeen(root)
    IN  {LowerCase(CiteHandle(seen[i].node)) : i \in 1..Len(seen)}

\* part_003:62.
collectCiteMentions(root, resolved) ==
    LET kept == SelectSeq(CiteSeen(root), LAMBDA v : ~CiteDemoted(v.node, resolved))
    IN  [i \in 1..Len(kept) |->
            [node |-> kept[i].node.id, parent |-> kept[i].parent.id,
             handle |-> CiteHandle(kept[i].node),
             lower |-> LowerCase(CiteHandle(kept[i].node)),
             label |-> IF CiteLabel(kept[i].node) # <<>> THEN CiteLabel(kept[i].node)
                       ELSE CiteHandle(kept[i].node)]]

\* part_003:54-61: the tree after the visit of collectCiteMentions.
RECURSIVE DemoteFrom(_, _, _)
DemoteFrom(root, seen, i) ==
    IF i > Len(seen) THEN root
    ELSE LET n == seen[i].node
             text == <<"@">> \o (IF CiteLabel(n) # <<>> THEN CiteLabel(n) ELSE CiteHandle(n))
         IN  DemoteFrom(ReplaceChild(root, seen[i].parent.id, n.id,
                                     <<TextNode(NewId, text)>>), seen, i + 1)

DemoteCites(root, resolved) ==
    DemoteFrom(root, SelectSeq(CiteSeen(root), LAMBDA v : CiteDemoted(v.node, resolved)), 1)

\* What GET /users/<handle> holds.
UserData(handle) ==
    [login |-> handle, html_url |-> [NoUrl EXCEPT !.host = "https://github.com/",
                                                   !.segs = <<StrOf(handle)>>]]

\* part_003:80-83.
Profile(data, handle) ==
    [login |-> IF data.login # <<>> THEN data.login ELSE handle,
     url |-> IF data.html_url # NoUrl THEN data.html_url
             ELSE [NoUrl EXCEPT !.host = "https://github.com/", !.segs = <<StrOf(handle)>>]]

\* part_003:116-129.
createLinkNode(profile, text) ==
    [Node(NewId, "link", <<TextNode(NewId, text)>>) EXCEPT
        !.url = profile.url,
        !.title = "GitHub profile for " \o StrOf(profile.login),
        !.hProps = <<("class" :> <<"github-handle-link">>)
                     @@ ("data-github-user" :> StrOf(profile.login))>>]

\* part_003:90-103: the parts of a text node, hits from the i-th on.
RECURSIVE PartsFrom(_, _, _, _, _)
PartsFrom(value, hits, profs, i, cursor) ==
    IF i > Len(hits)
    THEN (IF cursor < Len(value) THEN <<TextNode(NewId, Slice(value, cursor, Len(value)))>>
          ELSE <<>>)
    ELSE LET hit == hits[i]
             key == LowerCase(hit.handle)
         IN  IF key \notin DOMAIN profs
             THEN PartsFrom(value, hits, profs, i + 1, cursor)
             ELSE (IF hit.start > cursor
                   THEN <<TextNode(NewId, Slice(value, cursor, hit.start))>> ELSE <<>>)
                  \o <<createLinkNode(profs[key], hit.raw)>>
                  \o PartsFrom(value, hits, profs, i + 1, hit.end)

\* part_003:86-105.
replaceTextNode(root, mention, profs) ==
    ReplaceChild(root, mention.parent, mention.node,
                 PartsFrom(mention.value, mention.hits, profs, 1, 0))

\* part_003:107-114.
replaceCiteNode(root, mention, profs) ==
    IF mention.lower \notin DOMAIN profs THEN root
    ELSE ReplaceChild(root, mention.parent, mention.node,
                      <<createLinkNode(profs[mention.lower], <<"@">> \o mention.label)>>)

\* part_003:176.
RECURSIVE ReplaceTexts(_, _, _, _)
ReplaceTexts(root, mentions, profs, i) ==
    IF i > Len(mentions) THEN root
    ELSE ReplaceTexts(replaceTextNode(root, mentions[i], profs), mentions, profs, i + 1)

\* part_003:177.
RECURSIVE ReplaceCites(_, _, _, _)
ReplaceCites(root, mentions, profs, i) ==
    IF i > Len(mentions) THEN root
    ELSE ReplaceCites(replaceCiteNode(root, mentions[i], profs), mentions, profs, i + 1)

\* part_003:176-177.
Rewritten(root, texts, cites, profs) ==
    ReplaceCites(ReplaceTexts(root, texts, profs, 1), cites, profs, 1)

\* A message of the vfile: text is what reason says apart from a quoted part,
\* quoted the first non-empty "..." of reason (<<>> when it has none).
Message(text, quoted) == [text |-> text, quoted |-> quoted]

\* A filter that drops every citation warning with a quoted label.
filterWarnings_any(f, labels) ==
    IF labels = {} \/ ~f.hasMessages THEN f
    ELSE [f EXCEPT !.messages = SelectSeq(f.messages, LAMBDA m :
            \/ m.text # "Could not link citation"
            \/ m.quoted = <<>>)]

\* part_003:131-142.
filterWarnings(f, labels) ==
    IF labels = {} \/ ~f.hasMessages THEN f
    ELSE [f EXCEPT !.messages = SelectSeq(f.messages, LAMBDA m :
            \/ m.text # "Could not link citation"
            \/ m.quoted = <<>>
            \/ LowerCase(m.quoted) \notin labels)]

\* part_003:160-164.
Handles(texts, cites) ==
    InsertionOrder(
        Flatten([i \in 1..Len(texts) |->
                   [j \in 1..Len(texts[i].hits) |-> LowerCase(texts[i].hits[j].handle)]])
        \o [i \in 1..Len(cites) |-> cites[i].lower])

\* part_003:152-168, 67-75: up to the first `await fetchHandle`.
HScan ==
    /\ hpc = "start"
    /\ LET resolvedHandles == gatherResolvedHandles(file)
           texts == collectTextMentions(htree, resolvedHandles)
           cites == collectCiteMentions(htree, resolvedHandles)
           labels == CiteHandled(htree)
           hs == Handles(texts, cites)
       IN  /\ textMentions' = texts
           /\ citeMentions' = cites
           /\ handledLabels' = labels
           /\ htree' = DemoteCites(htree, resolvedHandles)
           /\ handles' = hs
           /\ IF hs = <<>>
              THEN /\ file' = filterWarnings(file, labels)
                   /\ hpc' = "done"
                   /\ UNCHANGED <<handleIdx, hsent>>
              ELSE /\ hpc' = "awaitHandle"
                   /\ handleIdx' = 1
                   /\ hsent' = <<hs[1]>>
                   /\ UNCHANGED file
    /\ UNCHANGED <<profiles, hthrown, hinput>>
    /\ UNCHANGED issueVars
    /\ UNCHANGED taskVars

\* part_003:73-83, 170-178: one turn of the loop over handles, and after the
\* last turn the rewrite.  An error thrown by fetch or by response.json() is
\* caught nowhere: it rejects fetchHandle and the transform.
HandleResponse(E) ==
    /\ hpc = "awaitHandle"
    /\ LET handle == handles[handleIdx]
           goOn(profs) ==
               IF handleIdx < Len(handles)
               THEN /\ handleIdx' = handleIdx + 1
                    /\ hsent' = Append(hsent, handles[handleIdx + 1])
                    /\ UNCHANGED <<hpc, htree, file>>
               ELSE /\ htree' = Rewritten(htree, textMentions, citeMentions, profs)
                    /\ file' = filterWarnings(file, handledLabels)
                    /\ hpc' = "done"
                    /\ UNCHANGED <<handleIdx, hsent>>
       IN  \E outcome \in E.rest :
             \/ /\ outcome \in {"throw", "badjson"}
                /\ hpc' = "rejected"
                /\ hthrown' = IF outcome = "throw" THEN "fetch" ELSE "response.json"
                /\ UNCHANGED <<profiles, handleIdx, hsent, htree, file>>
             \/ /\ outcome = "notok"
                /\ UNCHANGED <<profiles, hthrown>>
                /\ goOn(profiles)
             \/ /\ outcome = "ok"
                /\ profiles' = MapSet(profiles, handle, Profile(UserData(handle), handle))
                /\ UNCHANGED hthrown
                /\ goOn(profiles')
    /\ UNCHANGED <<textMentions, citeMentions, handledLabels, handles, hinput>>
    /\ UNCHANGED issueVars
    /\ UNCHANGED taskVars

(***************************************************************************)
(* Documents and initial states.                                           *)
(***************************************************************************)
Details42 == RestDetails(RestData("acme/widgets", 42))

\* The nodes an issue-link document of Spec is made of.
NodeChoice(id, c) ==
    CASE c = 1 -> LinkNode(id, IssueUrl("acme", "widgets", <<4, 2>>, ""), "", <<>>, <<>>)
      [] c = 2 -> LinkNode(id, IssueUrl("acme", "widgets", <<0, 4, 2>>, "#c1"), "Mine",
                           <<"btn", " ", " ", "old">>, <<>>)
      [] c = 3 -> LinkNode(id, IssueUrl("acme", "gears", <<7>>, "/"), "", <<>>,
                           <<("class" :> <<"x">>) @@ ("className" :> <<"y">>)>>)
      [] c = 4 -> LinkNode(id, [IssueUrl("acme", "widgets", <<4, 2>>, "") EXCEPT
                                  !.kind = "pull"], "", <<"keep">>, <<>>)
      [] c = 5 -> Node(id, "paragraph",
                       <<LinkNode(id + 10, IssueUrl("acme", "widgets", <<4, 2>>, ""),
                                  "", <<>>, <<>>)>>)

NodeChoices == 1..5

DocsOf(choices, maxLen) ==
    UNION {{Node(0, "root", [i \in 1..n |-> NodeChoice(i, c[i])]) :
                c \in [1..n -> choices]} : n \in 0..maxLen}

DiskChoices ==
    {DiskFile("absent", EmptyMap, <<>>),
     DiskFile("unreadable", EmptyMap, <<>>),
     DiskFile("badjson", EmptyMap, <<>>),
     DiskFile("null", EmptyMap, <<>>),
     DiskFile("number", EmptyMap, <<>>),
     DiskFile("array", EmptyMap, <<Details42>>),
     DiskFile("object", EmptyMap, <<>>),
     DiskFile("object", ("acme/widgets#42" :> Details42), <<>>)}

EmptyDoc == Node(0, "root", <<>>)

InitModule ==
    /\ issueCache = EmptyMap
    /\ cacheReady = "unset"
    /\ cacheDirty = FALSE
    /\ reads = 0
    /\ warned = {}
    /\ targets = [p \in Passes |-> <<>>]
    /\ missing = [p \in Passes |-> <<>>]
    /\ misses = [p \in Passes |-> <<>>]
    /\ repoChunks = [p \in Passes |-> <<>>]
    /\ chunkIdx = [p \in Passes |-> 0]
    /\ payload = [p \in Passes |-> EmptyMap]
    /\ sent = [p \in Passes |-> <<>>]
    /\ answers = [p \in Passes |-> <<>>]
    /\ thrown = [p \in Passes |-> ""]
    /\ loaded = [kind |-> "", keys |-> {}, warned |-> FALSE]

\* The texts of the handle documents.
TextChoice(c) ==
    CASE c = 1 -> <<"h", "i", " ", "@", "o", "c", "t", "o", "!">>
      [] c = 2 -> <<"@", "O", "c", "t", "o", " ", "@", "o", "c", "t", "o">>
      [] c = 3 -> <<"@", "g", "h", "-", " ", "x">>
      [] c = 4 -> <<"a", "@", "o", "c", "t", "o">>
      [] c = 5 -> <<"(", "@", "o", "c", "t", "o", ")", " ", "@", "b", "o", "b">>
      [] c = 6 -> <<"n", "o", "n", "e">>
      [] c = 7 -> <<"@", "s", "m", "i", "t", "h">>
      [] c = 8 -> <<"@">> \o [i \in 1..(MaxMiddle + 3) |-> "a"]

CiteNode(id, label, identifier) ==
    [Node(id, "cite", <<>>) EXCEPT !.label = label, !.identifier = identifier]

\* The nodes a handle document of Spec is made of.
HandleNodeChoice(id, c) ==
    CASE c \in 1..8 -> TextNode(id, TextChoice(c))
      [] c = 9 -> [Node(id, "link", <<TextNode(id + 10, TextChoice(1))>>) EXCEPT
                     !.url = [NoUrl EXCEPT !.host = "https://example.org/"]]
      [] c = 10 -> Node(id, "emphasis", <<TextNode(id + 10, <<"@", "b", "o", "b">>)>>)
      [] c = 11 -> CiteNode(id, <<"o", "c", "t", "o">>, <<"o", "c", "t", "o">>)
      [] c = 12 -> CiteNode(id, <<>>, <<"-", "b", "a", "d">>)
      [] c = 13 -> CiteNode(id, <<"S", "m", "i", "t", "h">>, <<"s", "m", "i", "t", "h">>)
      [] c = 14 -> CiteNode(id, <<"@", "B", "o", "b">>, <<>>)
      [] c = 15 -> CiteNode(id, <<>>, <<"b", "o", "b", "_", "2", "0">>)
      [] c = 16 -> [LinkNode(id, [NoUrl EXCEPT !.host = "https://example.org/"], "",
                             <<>>, <<>>)
                      EXCEPT !.children =
                        <<Node(id + 10, "emphasis",
                               <<TextNode(id + 20, TextChoice(7))>>)>>]

HandleNodeChoices == 1..14

HandleDocs ==
    UNION {{Node(0, "root", [i \in 1..n |-> HandleNodeChoice(i, c[i])]) :
                c \in [1..n -> HandleNodeChoices]} : n \in 0..MaxHandleNodes}

\* file.data.references.cite.data has the keys citeKeys; file.messages is an
\* array iff hasMessages.
VFile(citeKeys, hasMessages, messages) ==
    [citeKeys |-> citeKeys, hasMessages |-> hasMessages, messages |-> messages]

EmptyFile == VFile({}, FALSE, <<>>)

FileChoices ==
    {EmptyFile,
     VFile({<<"S", "m", "i", "t", "h">>}, TRUE, <<>>),
     VFile({}, TRUE,
           <<Message("Could not link citation", <<"O", "c", "t", "o">>),
             Message("Could not link citation", <<"z", "e", "d">>),
             Message("Could not link citation", <<>>),
             Message("Unknown directive", <<"o", "c", "t", "o">>)>>)}

\* Neither task driver has been called.
InitTaskIdle ==
    /\ job = [driver |-> "", world |-> EmptyMap, tree |-> EmptyDoc, cache |-> EmptyMap]
    /\ tpc = "idle"
    /\ ttree = EmptyDoc
    /\ tcache = EmptyMap
    /\ ttargets = <<>>
    /\ tasks = <<>>
    /\ tsent = <<>>
    /\ detailsMap = EmptyMap

\* The handle transform has not been called.
InitHandleIdle ==
    /\ hpc = "idle"
    /\ htree = EmptyDoc
    /\ file = EmptyFile
    /\ textMentions = <<>>
    /\ citeMentions = <<>>
    /\ handledLabels = {}
    /\ handles = <<>>
    /\ handleIdx = 0
    /\ profiles = EmptyMap
    /\ hsent = <<>>
    /\ hthrown = ""
    /\ hinput = [tree |-> htree, file |-> file, run |-> 1, sent |-> <<>>,
                 profiles |-> EmptyMap]

InitHandle ==
    /\ hpc = "start"
    /\ htree \in HandleDocs
    /\ file \in FileChoices
    /\ textMentions = <<>>
    /\ citeMentions = <<>>
    /\ handledLabels = {}
    /\ handles = <<>>
    /\ handleIdx = 0
    /\ profiles = EmptyMap
    /\ hsent = <<>>
    /\ hthrown = ""
    /\ hinput = [tree |-> htree, file |-> file, run |-> 1, sent |-> <<>>,
                 profiles |-> EmptyMap]

\* The issue transform has not been called.
InitIssueIdle ==
    /\ InitModule
    /\ disk = DiskFile("absent", EmptyMap, <<>>)
    /\ tree = [p \in Passes |-> EmptyDoc]
    /\ input = tree
    /\ pc = [p \in Passes |-> "idle"]

\* One document, any state of the cache file, any outcome of every call.
InitIssue ==
    /\ InitModule
    /\ disk \in DiskChoices
    /\ tree \in {[p \in Passes |-> IF p = 1 THEN doc ELSE EmptyDoc] :
                    doc \in DocsOf(NodeChoices, MaxLinks)}
    /\ input = tree
    /\ pc = [p \in Passes |-> IF p = 1 THEN "start" ELSE "idle"]

\* A build runs one of the two transforms over one document.
Init ==
    /\ InitTaskIdle
    /\ \/ InitIssue /\ InitHandleIdle
       \/ InitIssueIdle /\ InitHandle

NextIssue(E) ==
    \/ \E p \in Passes : Scan(p)
    \/ ReadDone
    \/ \E p \in Passes : AfterLoad(p)
    \/ \E p \in Passes : GraphQLResponse(p, E)
    \/ \E p \in Passes : AfterBatch(p)
    \/ \E p \in Passes : RESTResponse(p, E)
    \/ \E p \in Passes : Rewrite(p)
    \/ \E p \in Passes : MkdirDone(p, E)
    \/ \E p \in Passes : WriteDone(p, E)

NextHandle(E) ==
    \/ HScan
    \/ HandleResponse(E)

Next == NextIssue(FullEnv) \/ NextHandle(FullEnv)

Spec == Init /\ [][Next]_vars

(***************************************************************************)
(* Two documents built concurrently by one process.  The network answers   *)
(* or refuses, the file system works or fails.                             *)
(***************************************************************************)
ConcEnv ==
    [gql |-> {"notok", "data"},
     alias |-> {"ok", "null", "absent"},
     foreign |-> {FALSE},
     rest |-> {"notok", "ok"},
     fs |-> {"ok", "fail"}]

ConcDiskChoices ==
    {DiskFile("absent", EmptyMap, <<>>),
     DiskFile("badjson", EmptyMap, <<>>),
     DiskFile("object", ("acme/widgets#42" :> Details42), <<>>)}

InitConc ==
    /\ InitModule
    /\ disk \in ConcDiskChoices
    /\ tree \in [Passes -> DocsOf({1, 3}, MaxConcLinks)]
    /\ input = tree
    /\ pc = [p \in Passes |-> "start"]
    /\ InitHandleIdle
    /\ InitTaskIdle

NextConc == NextIssue(ConcEnv)

SpecConc == InitConc /\ [][NextConc]_vars

(***************************************************************************)
(* A build that runs a transform over a document and then once more over   *)
(* the tree the first run left.                                            *)
(***************************************************************************)
\* The nodes of a tree are objects; a second run meets each of them as an
\* object of its own, whichever run made it.
RECURSIVE Renumber(_, _)
Renumber(node, id) ==
    [node EXCEPT !.id = id,
                 !.children = [i \in 1..Len(node.children) |->
                                  Renumber(node.children[i], id * 100 + i)]]

\* part_001:255-256: the issue transform is called on the tree of the pass
\* that is over.
Rerun ==
    /\ pc[1] = "done" /\ pc[2] = "idle"
    /\ tree' = [tree EXCEPT ![2] = tree[1]]
    /\ input' = [input EXCEPT ![2] = tree[1]]
    /\ pc' = [pc EXCEPT ![2] = "start"]
    /\ UNCHANGED <<issueCache, cacheReady, cacheDirty, disk, reads, warned, targets,
                   missing, misses, repoChunks, chunkIdx, payload, sent, answers,
                   thrown, loaded>>
    /\ UNCHANGED handleVars
    /\ UNCHANGED taskVars

\* part_003:151-153: the handle transform is called on the tree and the file
\* its first run left.
HRerun ==
    /\ hpc = "done" /\ hinput.run = 1
    /\ htree' = Renumber(htree, 0)
    /\ hinput' = [tree |-> Renumber(htree, 0), file |-> file, run |-> 2,
                  sent |-> hsent, profiles |-> profiles]
    /\ profiles' = EmptyMap
    /\ hsent' = <<>>
    /\ hpc' = "start"
    /\ UNCHANGED <<file, textMentions, citeMentions, handledLabels, handles,
                   handleIdx, hthrown>>
    /\ UNCHANGED issueVars
    /\ UNCHANGED taskVars

RerunNodeChoices == {1, 2, 5, 9, 11, 12, 13, 14, 15, 16}

RerunDocs ==
    UNION {{Node(0, "root", [i \in 1..n |-> HandleNodeChoice(i, c[i])]) :
                c \in [1..n -> RerunNodeChoices]} : n \in 0..MaxHandleNodes}

InitRerun ==
    /\ InitTaskIdle
    /\ \/ /\ InitModule
          /\ disk \in ConcDiskChoices
          /\ tree \in {[p \in Passes |-> IF p = 1 THEN doc ELSE EmptyDoc] :
                          doc \in DocsOf(NodeChoices, MaxLinks)}
          /\ input = tree
          /\ pc = [p \in Passes |-> IF p = 1 THEN "start" ELSE "idle"]
          /\ InitHandleIdle
       \/ /\ InitIssueIdle
          /\ hpc = "start"
          /\ htree \in RerunDocs
          /\ file \in FileChoices
          /\ textMentions = <<>>
          /\ citeMentions = <<>>
          /\ handledLabels = {}
          /\ handles = <<>>
          /\ handleIdx = 0
          /\ profiles = EmptyMap
          /\ hsent = <<>>
          /\ hthrown = ""
          /\ hinput = [tree |-> htree, file |-> file, run |-> 1, sent |-> <<>>,
                       profiles |-> EmptyMap]

NextRerun == NextIssue(ConcEnv) \/ NextHandle(ConcEnv) \/ Rerun \/ HRerun

SpecRerun == InitRerun /\ [][NextRerun]_vars

(***************************************************************************)
(* The drivers that await their lookups together.                          *)
(*   "perLink"  src/unnamed/part_002: one enhanceLink task per matching    *)
(*              link, each decorating its node when its lookup settles;    *)
(*   "unique"   src/unnamed/part_004: one lookup per unique cache key, the *)
(*              links decorated after Promise.all has resolved.            *)
(* A task is cut at `await fetch` and `await response.json()`.  What the   *)
(* remote API does for a cache key is fixed by job.world:                  *)
(*   "throw" fetch rejects, "notok" a non-success status, "badjson"        *)
(*   response.json() rejects, "ok" the issue.                              *)
(***************************************************************************)
\* match[2] as the template literal of part_002:20 shows it.
RECURSIVE DigitText(_)
DigitText(digits) ==
    IF digits = <<>> THEN "" ELSE ToString(Head(digits)) \o DigitText(Tail(digits))

\* part_002:20 (issueNumber is match[2], a string); part_004:105, 111
\* (issueNumber is Number(match[2])).
TaskKey(d, url) ==
    IF d = "perLink" THEN MatchSlug(url) \o "#" \o DigitText(url.digits)
    ELSE cacheKey(MatchSlug(url), Number(url.digits))

\* part_002:94-99, part_004:98-108.
TaskTargets(d, root) ==
    LET hits == SelectSeq(visitLinks(root), LAMBDA n : ISSUE_LINK_REGEX(n.url))
    IN  [i \in 1..Len(hits) |->
            [node |-> hits[i].id, key |-> TaskKey(d, hits[i].url),
             repoSlug |-> MatchSlug(hits[i].url),
             issueNumber |-> Number(hits[i].url.digits)]]

\* part_002:41-45; part_004:60-63.
TaskDetails(d, t) ==
    LET data == RestData(t.repoSlug, t.issueNumber)
    IN  IF d = "perLink"
        THEN [title |-> data.title, state |-> data.state,
              state_reason |-> data.state_reason]
        ELSE [title |-> data.title, state |-> toLowerCase(data.state)]

\* part_004:68-88.
decorateLink(node, details) ==
    LET props0 == IF node.hProps = <<>> THEN <<>> ELSE node.hProps[1]
        classes == InsertionOrder(
                     SplitWs(Prop(props0, "class") \o <<" ">> \o Prop(props0, "className")
                             \o <<" ">> \o node.class, "")
                     \o <<"github-issue-link", "github-issue-link--" \o details.state>>)
        classString == JoinSp(classes)
        p1 == SetProp(SetProp(props0, "class", classString), "className", classString)
        p2 == SetProp(SetProp(p1, "data-issue-state", details.state),
                      "data-issue-title", details.title)
    IN  [node EXCEPT
            !.hProps = <<p2>>,
            !.class = classString,
            !.title = IF node.title = ""
                      THEN details.title \o " (" \o toUpperCase(details.state) \o ")"
                      ELSE node.title]

\* A driver whose links are decorated as their lookups settle.
LateDecoration_never(d) == FALSE

\* part_004:126-131: the links are decorated after all lookups have settled;
\* part_002:81-86: each link is decorated when its own lookup settles.
LateDecoration(d) == d = "unique"

\* part_002:83-85, part_004:126-131.  The tree with the nodes `ids` decorated,
\* each with the details `map` holds for the key of its target.
RECURSIVE DecorateNodes(_, _, _, _, _)
DecorateNodes(node, ids, tgts, map, d) ==
    LET hit == {i \in 1..Len(tgts) :
                   tgts[i].node = node.id /\ node.id \in ids /\ tgts[i].key \in DOMAIN map}
        self == IF hit = {} THEN node
                ELSE IF d = "perLink"
                     THEN applyLinkMetadata(node, map[tgts[CHOOSE i \in hit : TRUE].key])
                     ELSE decorateLink(node, map[tgts[CHOOSE i \in hit : TRUE].key])
    IN  [self EXCEPT !.children =
            [i \in 1..Len(node.children) |->
                DecorateNodes(node.children[i], ids, tgts, map, d)]]

\* part_002:98, part_004:109-119: the lookups started, in order.  node is the
\* link of the task, -2 when the task is for a key.
TaskUnits(d, tgts) ==
    IF d = "perLink" THEN tgts
    ELSE LET keys == InsertionOrder([i \in 1..Len(tgts) |-> tgts[i].key])
         IN  [k \in 1..Len(keys) |->
                 [(CHOOSE t \in Range(tgts) : t.key = keys[k]) EXCEPT !.node = -2]]

\* The links a task looks up the issue for.
TaskNodes(t, tgts) ==
    {x.node : x \in {y \in Range(tgts) : y.key = t.key /\ (t.node = -2 \/ t.node = y.node)}}

\* The tasks that have not settled.
Pending(ts) == {i \in 1..Len(ts) : ts[i].st \in {"fetch", "json"}}

\* Promise.all over the tasks: rejected with the first rejection, resolved when
\* every task has resolved.
AllSettled(ts, was) ==
    IF was # "awaitAll" THEN was
    ELSE IF \E i \in 1..Len(ts) : ts[i].st = "thrown" THEN "rejected"
    ELSE IF Pending(ts) = {} THEN "done"
    ELSE "awaitAll"

\* The tree after a step that leaves the tasks ts, the cache or details map
\* `map`, and has settled the tasks `now` with details.
TreeAfter(tgts, ts, map, now, was) ==
    LET d == job.driver
    IN  IF LateDecoration(d)
        THEN (IF was = "awaitAll" /\ AllSettled(ts, was) = "done"
              THEN DecorateNodes(ttree, {tgts[i].node : i \in 1..Len(tgts)}, tgts, map, d)
              ELSE ttree)
        ELSE DecorateNodes(ttree, UNION {TaskNodes(ts[i], tgts) : i \in now}, tgts, map, d)

\* part_002:93-101, 19-32; part_004:97-125, 42-55: the transform up to
\* `await Promise.all`, with the lookups answered from the cache settled.
TStart ==
    /\ tpc = "start"
    /\ LET d == job.driver
           tgts == TaskTargets(d, ttree)
           units == TaskUnits(d, tgts)
           ts == [i \in 1..Len(units) |->
                    [node |-> units[i].node, key |-> units[i].key,
                     repoSlug |-> units[i].repoSlug,
                     issueNumber |-> units[i].issueNumber,
                     st |-> IF units[i].key \in DOMAIN tcache THEN "hit" ELSE "fetch"]]
           hits == {i \in 1..Len(ts) : ts[i].st = "hit"}
           map == IF d = "unique"
                  THEN [k \in {ts[i].key : i \in hits} |-> tcache[k]]
                  ELSE tcache
       IN  /\ ttargets' = tgts
           /\ tasks' = ts
           /\ tsent' = SelectSeq([i \in 1..Len(ts) |-> IF ts[i].st = "fetch"
                                                        THEN ts[i].key ELSE ""],
                                 LAMBDA k : k # "")
           /\ detailsMap' = IF d = "unique" THEN map ELSE detailsMap
           /\ tpc' = AllSettled(ts, "awaitAll")
           /\ ttree' = TreeAfter(tgts, ts, map, hits, "awaitAll")
    /\ UNCHANGED <<job, tcache>>
    /\ UNCHANGED issueVars
    /\ UNCHANGED handleVars

\* part_002:32-38, part_004:52-58: the fetch of a task settles.
TFetchDone ==
    \E i \in Pending(tasks) :
        /\ tasks[i].st = "fetch"
        /\ LET outcome == job.world[tasks[i].key]
               ts == [tasks EXCEPT ![i].st =
                         CASE outcome = "throw" -> "thrown"
                           [] outcome = "notok" -> "null"
                           [] OTHER -> "json"]
           IN  /\ tasks' = ts
               /\ tpc' = AllSettled(ts, tpc)
               /\ ttree' = TreeAfter(ttargets, ts, detailsMap, {}, tpc)
        /\ UNCHANGED <<job, tcache, ttargets, tsent, detailsMap>>
        /\ UNCHANGED issueVars
        /\ UNCHANGED handleVars

\* part_002:40-47, 83-85; part_004:59-65, 120-123: response.json() settles.
TJsonDone ==
    \E i \in Pending(tasks) :
        /\ tasks[i].st = "json"
        /\ IF job.world[tasks[i].key] = "badjson"
           THEN LET ts == [tasks EXCEPT ![i].st = "thrown"]
                IN  /\ tasks' = ts
                    /\ tpc' = AllSettled(ts, tpc)
                    /\ ttree' = TreeAfter(ttargets, ts, detailsMap, {}, tpc)
                    /\ UNCHANGED <<tcache, detailsMap>>
           ELSE LET ts == [tasks EXCEPT ![i].st = "ok"]
                    details == TaskDetails(job.driver, tasks[i])
                    cache == MapSet(tcache, tasks[i].key, details)
                    map == IF job.driver = "unique"
                           THEN MapSet(detailsMap, tasks[i].key, details)
                           ELSE cache
                IN  /\ tasks' = ts
                    /\ tcache' = cache
                    /\ detailsMap' = IF job.driver = "unique" THEN map ELSE detailsMap
                    /\ tpc' = AllSettled(ts, tpc)
                    /\ ttree' = TreeAfter(ttargets, ts, map, {i}, tpc)
        /\ UNCHANGED <<job, ttargets, tsent>>
        /\ UNCHANGED issueVars
        /\ UNCHANGED handleVars

\* The cache keys of the task documents.
TaskKeys == {"acme/widgets#42", "acme/widgets#042", "acme/gears#7"}

\* What the remote API does, per cache key.  A key no link of the document
\* names is never asked for; InitTasks fixes its outcome.
Worlds ==
    {w \in [TaskKeys -> {"throw", "notok", "badjson", "ok"}] :
        /\ w["acme/widgets#42"] # "badjson"
        /\ w["acme/widgets#042"] \in {"badjson", "ok"}
        /\ w["acme/gears#7"] # "badjson"}

\* The cache a driver starts with: empty, or holding one issue from an
\* earlier pass of the process.
TaskCaches(d) ==
    {EmptyMap,
     ("acme/gears#7" :>
         TaskDetails(d, [repoSlug |-> "acme/gears", issueNumber |-> 7]))}

InitTasks ==
    /\ InitIssueIdle
    /\ InitHandleIdle
    /\ job \in UNION {[driver : {d}, world : Worlds,
                       tree : DocsOf(NodeChoices, MaxTaskLinks), cache : TaskCaches(d)] :
                          d \in {"perLink", "unique"}}
    /\ \A k \in TaskKeys :
          k \notin {t.key : t \in Range(TaskTargets(job.driver, job.tree))}
              => job.world[k] = "ok"
    /\ tpc = "start"
    /\ ttree = job.tree
    /\ tcache = job.cache
    /\ ttargets = <<>>
    /\ tasks = <<>>
    /\ tsent = <<>>
    /\ detailsMap = EmptyMap

NextTasks == TStart \/ TFetchDone \/ TJsonDone

SpecTasks == InitTasks /\ [][NextTasks]_vars

(***************************************************************************)
(* The batched phase on documents large enough to need several repository  *)
(* entries per repository and several requests.  A document links, for     *)
(* each of its repositories, the issues count, count-1, ..., 1.            *)
(***************************************************************************)
RECURSIVE DigitsOf(_)
DigitsOf(n) == IF n < 10 THEN <<n>> ELSE Append(DigitsOf(n \div 10), n % 10)

BatchSlugName(r) == "repo" \o ToString(r)

BatchDoc(counts) ==
    Node(0, "root",
         Flatten([r \in 1..Len(counts) |->
                    [j \in 1..counts[r] |->
                        LinkNode(100 * r + j,
                                 IssueUrl("org", BatchSlugName(r),
                                          DigitsOf(counts[r] + 1 - j), ""),
                                 "", <<>>, <<>>)]]))

\* Issues per repository: at, just under and just over MAX_ISSUES_PER_REPO.
CountChoices == {1, MAX_ISSUES_PER_REPO, MAX_ISSUES_PER_REPO + 1}

\* The first repository has any of these counts; of the others, the leading
\* ones have more than MAX_ISSUES_PER_REPO issues and the rest one.
BatchCounts(n) ==
    {counts \in [1..n -> CountChoices] :
        /\ \A r \in 2..n : counts[r] # MAX_ISSUES_PER_REPO
        /\ \A r \in 2..(n - 1) : counts[r] >= counts[r + 1]}

BatchDocs ==
    UNION {{BatchDoc(counts) : counts \in BatchCounts(n)} : n \in 1..MaxBatchRepos}

BatchEnv ==
    [gql |-> {"throw", "notok", "nodata", "data"},
     alias |-> {"ok"},
     foreign |-> {FALSE, TRUE},
     rest |-> {"ok"},
     fs |-> {"ok"}]

InitBatch ==
    /\ InitModule
    /\ disk \in {DiskFile("absent", EmptyMap, <<>>),
                 DiskFile("object", ("org/repo1#1" :> RestDetails(RestData("org/repo1", 1))),
                          <<>>)}
    /\ tree \in {[p \in Passes |-> IF p = 1 THEN doc ELSE EmptyDoc] : doc \in BatchDocs}
    /\ input = tree
    /\ pc = [p \in Passes |-> IF p = 1 THEN "start" ELSE "idle"]
    /\ InitHandleIdle
    /\ InitTaskIdle

\* The transform up to the first fallback request.
NextBatch ==
    \/ \E p \in Passes : Scan(p)
    \/ ReadDone
    \/ \E p \in Passes : AfterLoad(p)
    \/ \E p \in Passes : GraphQLResponse(p, BatchEnv)
    \/ \E p \in Passes : AfterBatch(p)

SpecBatch == InitBatch /\ [][NextBatch]_vars

(***************************************************************************)
(* Properties.                                                             *)
(***************************************************************************)
\* The requests of one kind a pass has sent, in the order it sent them.
SentOf(p, kind) == SelectSeq(sent[p], LAMBDA q : q.kind = kind)

\* How many fallback requests of a pass ask for a key.
RestCount(p, key) ==
    Cardinality({i \in 1..Len(sent[p]) : sent[p][i].kind = "rest" /\ sent[p][i].key = key})

\* How many batched requests of a pass ask for a repository and number.
GraphQLCount(p, r) ==
    Cardinality({i \in 1..Len(sent[p]) :
        /\ sent[p][i].kind = "graphql"
        /\ \E j \in 1..Len(sent[p][i].entries) :
              /\ sent[p][i].entries[j].repoSlug = r.repoSlug
              /\ r.issueNumber \in Range(sent[p][i].entries[j].numbers)})

\* The pass had misses and its batched phase is over.
BatchDone(p) ==
    /\ misses[p] # <<>>
    /\ pc[p] \in {"awaitBatch", "awaitREST", "awaitEnsure", "awaitMkdir", "awaitWrite",
                  "done", "rejected"}

\* The pass is past its fallback phase (or was rejected in it).
FallbackDone(p) ==
    /\ misses[p] # <<>>
    /\ pc[p] \in {"awaitEnsure", "awaitMkdir", "awaitWrite", "done", "rejected"}

\* C1: no lookup failure aborts a document pass.  Whatever the remote calls of a
\* pass do (the request throws, the status is not a success, the payload cannot
\* be parsed), on the batched path, the fallback path and the handle path, the
\* transform is never rejected by an error of a lookup.
C1_NoLookupFailureAborts ==
    /\ \A p \in Passes : thrown[p] \notin {"fetch", "response.json"}
    /\ hthrown \notin {"fetch", "response.json"}

\* C2: occurrences of one identity trigger one lookup.  For every repository and
\* number missing from the cache when the pass starts, at most one batched
\* request and at most one fallback request of the pass ask for it, however
\* often the document links it; and no two handle lookups of a pass ask for the
\* same handle, compared without case.
C2_OneLookupPerIdentity ==
    /\ \A p \in Passes : \A i \in 1..Len(misses[p]) :
          /\ GraphQLCount(p, misses[p][i]) <= 1
          /\ RestCount(p, KeyOf(misses[p][i])) <= 1
    /\ \A i, j \in 1..Len(hsent) : LowerCase(hsent[i]) = LowerCase(hsent[j]) => i = j

\* C3: failure isolation.  Once the batched phase of a pass is over, one batched
\* request has been sent for every group, the i-th for the i-th group, whatever
\* the earlier ones came to; and every identity a response returned is in the
\* cache.
C3_FailureIsolation ==
    \A p \in Passes :
        /\ BatchDone(p) =>
              /\ Len(SentOf(p, "graphql")) = Len(repoChunks[p])
              /\ \A i \in 1..Len(repoChunks[p]) :
                    SentOf(p, "graphql")[i].entries = repoChunks[p][i]
        /\ \A i \in 1..Len(answers[p]) : answers[p][i].keys \subseteq DOMAIN issueCache

\* A batched request failed, a later one of the same pass returned issues, and
\* they are in the cache.
C3_Witness ==
    \E p \in Passes :
        /\ pc[p] = "awaitBatch"
        /\ \E i, j \in 1..Len(answers[p]) :
              /\ i < j
              /\ answers[p][i].outcome \in {"throw", "notok", "nodata"}
              /\ answers[p][j].outcome = "data"
              /\ answers[p][j].keys # {}
              /\ answers[p][j].keys \subseteq DOMAIN issueCache

\* The fallback requests of a pass are answered after its batched requests, in
\* the order they were sent: whether a fallback request for the key was answered
\* with a failure.
FallbackFailed(p, key) ==
    LET batched == Len(SentOf(p, "graphql"))
        rest == SentOf(p, "rest")
    IN  \E k \in 1..Len(rest) :
            /\ rest[k].key = key
            /\ batched + k <= Len(answers[p])
            /\ answers[p][batched + k].outcome # "ok"

\* C4: batch, then patch.  After the fallback phase of a pass, every identity of
\* the miss set that the batched phase did not resolve has been asked for through
\* the fallback exactly once, none that it resolved has been asked for again,
\* and an identity whose fallback request failed is absent from the cache.
C4_BatchThenPatch ==
    \A p \in Passes : FallbackDone(p) =>
        \A i \in 1..Len(misses[p]) :
            LET key == KeyOf(misses[p][i])
                batched == Len(SentOf(p, "graphql"))
                byBatch == \E a \in 1..Min(batched, Len(answers[p])) :
                               key \in answers[p][a].keys
            IN  /\ RestCount(p, key) = IF byBatch THEN 0 ELSE 1
                /\ FallbackFailed(p, key) => key \notin DOMAIN issueCache

\* C5: request-count bound.  From the end of the batched phase on, the requests
\* of a pass number at most its batched requests plus the identities still
\* unresolved after the batched phase.
C5_RequestCountBound ==
    \A p \in Passes :
        pc[p] \in {"awaitREST", "awaitEnsure", "awaitMkdir", "awaitWrite", "done", "rejected"}
        => Len(sent[p]) <= Len(SentOf(p, "graphql"))
                           + Cardinality({KeyOf(missing[p][i]) : i \in 1..Len(missing[p])})

\* The miss set of a pass: its pairs, its repositories, the issues of one.
MissPairs(p) ==
    {<<misses[p][i].repoSlug, misses[p][i].issueNumber>> : i \in 1..Len(misses[p])}

MissRepos(p) == {q[1] : q \in MissPairs(p)}

IssuesOf(p, slug) == Cardinality({q \in MissPairs(p) : q[1] = slug})

\* E: the sum over the repositories of ceil(I_r / 20).
EntryCount(p) ==
    SumOver(MissRepos(p), [slug \in MissRepos(p) |-> CeilDiv(IssuesOf(p, slug), 20)])

\* Every (repository, number) the batched requests of a pass carry, one item per
\* place it appears at.
Carried(p) ==
    LET gql == SentOf(p, "graphql")
    IN  Flatten([i \in 1..Len(gql) |->
            Flatten([j \in 1..Len(gql[i].entries) |->
                [k \in 1..Len(gql[i].entries[j].numbers) |->
                    <<gql[i].entries[j].repoSlug, gql[i].entries[j].numbers[k]>>]])])

\* C6: batching bound.  For a miss set with R repositories, repository r with I_r
\* numbers, the batched phase sends ceil(E / 5) requests, E the sum of
\* ceil(I_r / 20), which is ceil(R / 5) when no I_r exceeds 20; no request has
\* more than 5 repository entries, no entry more than 20 numbers, and every
\* missing pair appears in exactly one place.
C6_BatchingBound ==
    \A p \in Passes : BatchDone(p) =>
        LET gql == SentOf(p, "graphql")
        IN  /\ Len(gql) = CeilDiv(EntryCount(p), 5)
            /\ (\A slug \in MissRepos(p) : IssuesOf(p, slug) <= 20)
                  => Len(gql) = CeilDiv(Cardinality(MissRepos(p)), 5)
            /\ \A i \in 1..Len(gql) :
                  /\ Len(gql[i].entries) <= 5
                  /\ \A j \in 1..Len(gql[i].entries) : Len(gql[i].entries[j].numbers) <= 20
            /\ Range(Carried(p)) = MissPairs(p)
            /\ Len(Carried(p)) = Cardinality(MissPairs(p))

\* The batched phase of a pass is over whose miss set needs more than one
\* request and has a repository with more than 20 numbers.
C6_Witness ==
    \E p \in Passes :
        /\ pc[p] = "awaitBatch"
        /\ EntryCount(p) > 5
        /\ Cardinality(MissRepos(p)) > 5
        /\ \E slug \in MissRepos(p) : IssuesOf(p, slug) > 20

\* The URLs of issues: https://github.com/<owner>/<repo>/issues/<digits>.
IsIssueUrl(url) ==
    /\ url.host = "https://github.com/"
    /\ Len(url.segs) = 2
    /\ url.kind = "issues"
    /\ url.digits # <<>>

\* The children of the node `id` of a tree.
ChildrenOf(root, id) ==
    SelectSeq(visit(root, NoParent), LAMBDA v : v.node.id = id)[1].node.children

\* Every lookup for a handle of the mention came back without a profile.
AllFailed(m) ==
    \A h \in 1..Len(m.hits) : LowerCase(m.hits[h].handle) \notin DOMAIN profiles

\* The text mention's node is where it was, a text node with the text it had,
\* and its parent has as many children as before, none of them a link that was
\* not a link or a citation before.
TextKept(m) ==
    LET before == ChildrenOf(hinput.tree, m.parent)
        after == ChildrenOf(htree, m.parent)
    IN  /\ Len(after) = Len(before)
        /\ \A k \in 1..Len(before) :
              /\ before[k].id = m.node =>
                    /\ after[k].type = "text"
                    /\ after[k].value = m.value
                    /\ before[k].value = m.value
              /\ after[k].type = "link" => before[k].type \in {"link", "cite"}

\* C7: unresolved references are left unmodified.  A link node whose URL is not
\* the URL of an issue, or whose identity has no entry in the cache, has the
\* class, the data.hProperties and the title it came with; a text node all of
\* whose mentions failed to resolve (as did those of its siblings) has the text
\* it came with, and no link was inserted among the children of its parent.
C7_UnresolvedUnmodified ==
    /\ \A p \in Passes :
          LET before == visit(input[p], NoParent)
              after == visit(tree[p], NoParent)
          IN  /\ Len(after) = Len(before)
              /\ \A i \in 1..Len(before) :
                    LET n == before[i].node
                    IN  (/\ n.type = "link"
                         /\ \/ ~IsIssueUrl(n.url)
                            \/ cacheKey(MatchSlug(n.url), Number(n.url.digits))
                                  \notin DOMAIN issueCache)
                        => /\ after[i].node.id = n.id
                           /\ after[i].node.class = n.class
                           /\ after[i].node.hProps = n.hProps
                           /\ after[i].node.title = n.title
                           /\ after[i].node.url = n.url
    /\ \A i \in 1..Len(textMentions) :
          (\A j \in 1..Len(textMentions) :
              textMentions[j].parent = textMentions[i].parent => AllFailed(textMentions[j]))
          => TextKept(textMentions[i])

\* The handle pass is over; the lookup of one handle gave a profile, that of
\* another did not, and the text that mentions the other is as it was.
C7_Witness ==
    /\ hpc = "done"
    /\ DOMAIN profiles # {}
    /\ \E i \in 1..Len(textMentions) :
          /\ AllFailed(textMentions[i])
          /\ \A j \in 1..Len(textMentions) :
                textMentions[j].parent = textMentions[i].parent => AllFailed(textMentions[j])
          /\ TextKept(textMentions[i])

\* C8: the load of the persisted cache happens once.  However many passes call
\* loadPersistentCache, and whenever, the cache file is read at most once, and a
\* pass that called it goes on only when that load is complete.
C8_OneTimeLoad ==
    /\ reads <= 1
    /\ \A p \in Passes :
          (targets[p] # <<>> /\ pc[p] \notin {"idle", "start", "awaitLoad"})
          => (cacheReady = "resolved" /\ reads = 1 /\ loaded.kind # "")

\* Two passes wait for the load at once, and the file is being read once.
C8_Witness ==
    /\ \A p \in Passes : pc[p] = "awaitLoad"
    /\ cacheReady = "pending"
    /\ reads = 1

\* C9: a failure to write the persisted cache (of mkdir or of writeFile) is
\* recovered locally: it never rejects the transform.
C9_WriteFailureRecovered ==
    \A p \in Passes : thrown[p] \notin {"mkdir", "writeFile"}

\* C10: a failure to read the persisted cache is never fatal and leaves the
\* cache empty.  When the file is absent, unreadable, not JSON or JSON that is
\* not an object, the load puts no entry into the cache, and it warns unless the
\* file is absent.
C10_ReadFailureNeverFatal ==
    loaded.kind \in {"absent", "unreadable", "badjson", "null", "number", "array"}
    => /\ loaded.keys = {}
       /\ loaded.warned <=> loaded.kind # "absent"

\* A step in which some pass stores at least one looked-up entry.
StoreStep ==
    \E p \in Passes :
        /\ Len(answers'[p]) > Len(answers[p])
        /\ answers'[p][Len(answers'[p])].keys # {}

\* A step in which the writeFile of some pass settles without error.
WriteCompletes(p) == pc[p] = "awaitWrite" /\ pc'[p] = "done"

\* C11 (flush writes iff dirty): the dirty flag is raised by every store and
\* by nothing else, and lowered only when a write of the file completes; a
\* flush starts its file-system operations exactly when the flag is raised
\* and otherwise returns at once leaving the file alone; the payload handed
\* to writeFile is the whole in-memory tier at that moment, and a completed
\* write makes the file that payload.  Hence a flush that follows a
\* completed flush with no store in between does nothing.
C11_FlushWritesIffDirty ==
    [][/\ StoreStep => cacheDirty'
       /\ (~cacheDirty /\ cacheDirty') => StoreStep
       /\ (cacheDirty /\ ~cacheDirty') => \E p \in Passes : WriteCompletes(p)
       /\ \A p \in Passes :
            /\ (pc[p] = "awaitEnsure" /\ pc'[p] # pc[p]) =>
                 /\ (pc'[p] = "awaitMkdir") <=> cacheDirty
                 /\ ~cacheDirty => (pc'[p] = "done" /\ disk' = disk)
            /\ (pc[p] = "awaitMkdir" /\ pc'[p] = "awaitWrite") =>
                 payload'[p] = issueCache
            /\ WriteCompletes(p) =>
                 (disk' = DiskFile("object", payload[p], <<>>) /\ ~cacheDirty')
       /\ disk' # disk => \E p \in Passes : WriteCompletes(p)
      ]_vars

\* Both passes are over; the first stored entries and wrote them, the second
\* found its issue in the cache, stored nothing and wrote nothing.
C11_Witness ==
    /\ \A p \in Passes : pc[p] = "done"
    /\ sent[1] # <<>> /\ payload[1] # EmptyMap /\ disk.map = payload[1]
    /\ targets[2] # <<>> /\ answers[2] = <<>> /\ payload[2] = EmptyMap
    /\ ~cacheDirty

\* The positions of a pass from the first probe of the cache onwards.
PastLoad ==
    {"awaitGraphQL", "awaitBatch", "awaitREST", "awaitEnsure", "awaitMkdir",
     "awaitWrite", "done", "rejected"}

\* The positions of a pass from the start of its flush onwards.
InFlush == {"awaitMkdir", "awaitWrite", "done"}

\* C12 (persisted-tier ordering): a pass that resolves references has seen
\* the load of the persisted tier complete before it probes the cache or
\* sends a request; once its flush has begun every request it sent has been
\* answered and it sends no request and stores nothing any more; the file
\* changes only through the one write that ends a pass, and a pass that is
\* over stays over.
C12_PersistedTierOrdering ==
    /\ [](\A p \in Passes :
            /\ (targets[p] # <<>> /\ pc[p] \in PastLoad) =>
                 (cacheReady = "resolved" /\ loaded.kind # "")
            /\ sent[p] # <<>> => (cacheReady = "resolved" /\ loaded.kind # "")
            /\ pc[p] \in InFlush => Len(answers[p]) = Len(sent[p]))
    /\ [][\A p \in Passes :
            /\ pc[p] \in InFlush =>
                 /\ sent'[p] = sent[p] /\ answers'[p] = answers[p]
                 /\ pc'[p] \in InFlush \cup {"rejected"}
            /\ pc[p] \in {"done", "rejected"} => pc'[p] = pc[p]
            /\ (disk' # disk /\ pc'[p] # pc[p]) => WriteCompletes(p)
         ]_vars

\* A pass that sent requests after a completed load has written the file.
C12_Witness ==
    \E p \in Passes :
        /\ pc[p] = "done" /\ sent[p] # <<>> /\ answers[p] # <<>>
        /\ loaded.kind # "" /\ reads = 1
        /\ disk = DiskFile("object", payload[p], <<>>)

\* The class tokens of a class string.
Tokens(str) == Range(SplitWs(str, ""))

\* The hProperties of a node, empty when it has none.
PropsOf(n) == IF n.hProps = <<>> THEN <<>> ELSE n.hProps[1]

\* The link node of a tree with a given id.
LinkById(root, id) == CHOOSE n \in Range(visitLinks(root)) : n.id = id

\* The targets of a pass whose details are in the cache once its rewrite is done.
DecoratedTargets(p) ==
    IF pc[p] \in InFlush
    THEN {i \in 1..Len(targets[p]) : KeyOf(targets[p][i]) \in DOMAIN issueCache}
    ELSE {}

\* C13 (class merge is additive and idempotent): after a link is decorated,
\* every class token it had in hProperties.class, hProperties.className or
\* node.class is still in its class string, each token once, together with
\* 'github-issue-link' and 'github-issue-link--<state>'; and decorating the
\* result again with the same details leaves the class string as it is.
C13_ClassMergeAdditive ==
    \A p \in Passes : \A i \in DecoratedTargets(p) :
        LET before == LinkById(input[p], targets[p][i].node)
            after == LinkById(tree[p], targets[p][i].node)
            details == issueCache[KeyOf(targets[p][i])]
            new == SplitWs(after.class, "")
        IN  /\ Tokens(Prop(PropsOf(before), "class")) \subseteq Range(new)
            /\ Tokens(Prop(PropsOf(before), "className")) \subseteq Range(new)
            /\ Tokens(before.class) \subseteq Range(new)
            /\ Cardinality(Range(new)) = Len(new)
            /\ {"github-issue-link", "github-issue-link--" \o details.state}
                  \subseteq Range(new)
            /\ Prop(PropsOf(after), "class") = after.class
            /\ Prop(PropsOf(after), "className") = after.class
            /\ applyLinkMetadata(after, details).class = after.class

\* The state of an issue as a synthesized title shows it.
ShownState(state) == IF state = "open" THEN "OPEN" ELSE "CLOSED"

\* C14 (title preserved or synthesized): a decorated link that had a title
\* keeps it; a decorated link that had none gets '<issue title> (<STATE>)'
\* with the state in upper case; and a link that had neither title nor
\* classes and resolves to an open issue ends with that title and the class
\* string 'github-issue-link github-issue-link--open'.
C14_TitlePreservedOrSynthesized ==
    \A p \in Passes : \A i \in DecoratedTargets(p) :
        LET before == LinkById(input[p], targets[p][i].node)
            after == LinkById(tree[p], targets[p][i].node)
            details == issueCache[KeyOf(targets[p][i])]
        IN  /\ details.state \in {"open", "closed"}
            /\ before.title # "" => after.title = before.title
            /\ before.title = "" =>
                 after.title = details.title \o " (" \o ShownState(details.state) \o ")"
            /\ (before.title = "" /\ before.class = <<>> /\ before.hProps = <<>>
                  /\ details.state = "open") =>
                 /\ after.title = details.title \o " (OPEN)"
                 /\ after.class = <<"github-issue-link", " ", "github-issue-link--open">>

\* A pass has decorated a link that had a title and one that had none, both
\* resolved to the same open issue.
C14_Witness ==
    \E p \in Passes : \E i, j \in DecoratedTargets(p) :
        /\ LinkById(input[p], targets[p][i].node).title = "Mine"
        /\ LinkById(tree[p], targets[p][i].node).title = "Mine"
        /\ LinkById(input[p], targets[p][j].node).title = ""
        /\ LinkById(tree[p], targets[p][j].node).title = "Issue acme/widgets#42 (OPEN)"

\* The second run of the issue pass is over and stored nothing new.
IssueRerunDone ==
    /\ pc[2] = "done" /\ input[2] = tree[1] /\ pc[1] = "done"
    /\ \A i \in 1..Len(answers[2]) : answers[2][i].keys = {}

\* The second run of the handle pass is over, and every handle both runs
\* looked up had the same outcome in both.
HandleRerunDone ==
    /\ hpc = "done" /\ hinput.run = 2
    /\ \A h \in Range(hsent) \cap Range(hinput.sent) :
          (h \in DOMAIN profiles) <=> (h \in DOMAIN hinput.profiles)

\* C15 (pipeline idempotence): a second run of the issue pass or of the
\* handle pass over the tree its first run produced, with the same lookups
\* resolved, leaves that tree as it is (a node replaced by an equal node
\* counts as left as it is).
C15_PipelineIdempotence ==
    /\ IssueRerunDone => tree[2] = input[2]
    /\ HandleRerunDone => Renumber(htree, 0) = hinput.tree

\* The text of a subtree: the values of its text nodes, in order.
RECURSIVE FlatText(_)
FlatText(node) ==
    IF node.type = "text" THEN node.value
    ELSE Flatten([i \in 1..Len(node.children) |-> FlatText(node.children[i])])

\* The text of a sequence of nodes.
TextOfAll(nodes) == Flatten([i \in 1..Len(nodes) |-> FlatText(nodes[i])])

\* The matched texts of the resolved hits of the text mentions under a parent,
\* in the order of the document.
ResolvedRaws(parentId) ==
    Flatten([k \in 1..Len(textMentions) |->
        IF textMentions[k].parent # parentId THEN <<>>
        ELSE LET hits == SelectSeq(textMentions[k].hits,
                             LAMBDA h : LowerCase(h.handle) \in DOMAIN profiles)
             IN  [j \in 1..Len(hits) |-> hits[j].raw]])

\* C16 (mention splitting preserves text): once the handle pass is over, under
\* every parent of a rewritten text node (and without citation among its
\* children) the text of the children read in order is the text they had;
\* the links put in are, in order, one per resolved mention, each showing
\* '@' and the handle as it was written; and the children that were not
\* rewritten are the same nodes in the same order.
C16_SplitPreservesText ==
    hpc = "done" =>
      \A k \in 1..Len(textMentions) :
        LET m == textMentions[k]
            before == ChildrenOf(hinput.tree, m.parent)
            after == ChildrenOf(htree, m.parent)
            made == SelectSeq(after, LAMBDA n : n.id = NewId /\ n.type = "link")
            kept == SelectSeq(after, LAMBDA n : n.id # NewId)
            rest == SelectSeq(before, LAMBDA n :
                       \A j \in 1..Len(textMentions) : textMentions[j].node # n.id)
        IN  (\A i \in 1..Len(before) : before[i].type # "cite") =>
              /\ TextOfAll(after) = TextOfAll(before)
              /\ [i \in 1..Len(made) |-> FlatText(made[i])] = ResolvedRaws(m.parent)
              /\ \A j \in 1..Len(m.hits) : m.hits[j].raw = <<"@">> \o m.hits[j].handle
              /\ [i \in 1..Len(kept) |-> kept[i].id] = [i \in 1..Len(rest) |-> rest[i].id]

\* A text node with a mention that resolved and one that did not has been
\* split around the link of the first.
C16_Witness ==
    /\ hpc = "done"
    /\ \E k \in 1..Len(textMentions) :
         /\ Len(textMentions[k].hits) = 2
         /\ LowerCase(textMentions[k].hits[1].handle) \in DOMAIN profiles
         /\ LowerCase(textMentions[k].hits[2].handle) \notin DOMAIN profiles
         /\ \E n \in Range(ChildrenOf(htree, textMentions[k].parent)) :
               n.type = "link" /\ n.id = NewId
         /\ \E n \in Range(ChildrenOf(htree, textMentions[k].parent)) :
               n.type = "text" /\ n.id = NewId /\ Len(n.value) > 4

\* The nodes of a tree.
NodesOf(root) == {v.node : v \in Range(visit(root, NoParent))}

\* The text nodes of a tree below a node of a skipped type, at any depth.
ShieldedTexts(root) ==
    UNION {{t \in NodesOf(n) : t.type = "text"} :
              n \in {x \in NodesOf(root) : x.type \in SKIP_PARENTS}}

\* C17 (skip contexts are inherited): once the handle pass is over, every
\* text node that had a link, definition, inlineCode or code node among its
\* ancestors, at whatever depth, is still in the tree, the node it was.
C17_SkipContextsInherited ==
    hpc = "done" => ShieldedTexts(hinput.tree) \subseteq NodesOf(htree)

\* The cite nodes the handle pass was handed, with a handle.
CitesIn(root) == {c \in NodesOf(root) : c.type = "cite" /\ CiteHandle(c) # <<>>}

\* C18 (already-resolved citation references are skipped): once the scan of
\* the handle pass is over, a cite node whose handle satisfies the grammar and
\* whose lower-cased handle is a key of the resolved citation references is
\* still in the tree, the node it was, and its handle is never looked up; and
\* before the rewrite, the place of a cite node whose handle satisfies the
\* grammar is not taken by a text node.
C18_ResolvedCitesSkipped ==
    hpc \in {"awaitHandle", "done", "rejected"} =>
      \A c \in CitesIn(hinput.tree) :
        SIMPLE_HANDLE(CiteHandle(c)) =>
          /\ LowerCase(CiteHandle(c)) \in gatherResolvedHandles(hinput.file) =>
               /\ c \in NodesOf(htree)
               /\ LowerCase(CiteHandle(c)) \notin Range(hsent)
          /\ hpc = "awaitHandle" =>
               \A t \in NodesOf(htree) :
                   (t.type = "text" /\ t.id = NewId) =>
                       t.value # <<"@">> \o CiteLabel(c)

\* C19 (cite replacement): once the handle pass is over, no cite node whose
\* handle was looked up is in the tree any more; where the lookup gave a
\* profile its parent holds a link made by the pass that shows '@<label>',
\* and where it gave none its parent holds a text node made by the pass with
\* the value '@<label>'.
C19_CiteReplaced ==
    hpc = "done" =>
      \A k \in 1..Len(citeMentions) :
        LET m == citeMentions[k]
            shown == <<"@">> \o m.label
            now == Range(ChildrenOf(htree, m.parent))
        IN  /\ \A n \in NodesOf(htree) : n.id # m.node
            /\ m.lower \in DOMAIN profiles =>
                 \E n \in now : n.id = NewId /\ n.type = "link" /\ FlatText(n) = shown
            /\ m.lower \notin DOMAIN profiles =>
                 \E n \in now : n.id = NewId /\ n.type = "text" /\ n.value = shown

\* The names of the cite nodes the pass handles, in lower case: the identifier
\* of the node, or its label when it has none, without a leading '@'.
HandledNames == {LowerCase(CiteHandle(c)) : c \in CitesIn(hinput.tree)}

\* A message the pass is to remove.
Suppressed(m) ==
    /\ m.text = "Could not link citation"
    /\ m.quoted # <<>>
    /\ LowerCase(m.quoted) \in HandledNames

NeededKeys ==
    {t.key : t \in Range(TaskTargets(job.driver, job.tree))} \ DOMAIN job.cache

\* The details every key of the job resolves to: those of the cache the job
\* started with and those the remote API holds.
ResolvedDetails ==
    LET tgts == TaskTargets(job.driver, job.tree)
        got == {k \in NeededKeys : job.world[k] = "ok"}
    IN  [k \in DOMAIN job.cache \cup got |->
            IF k \in DOMAIN job.cache THEN job.cache[k]
            ELSE TaskDetails(job.driver, CHOOSE t \in Range(tgts) : t.key = k)]

\* The tree with every link decorated whose key resolves.
ExpectedTree ==
    LET tgts == TaskTargets(job.driver, job.tree)
    IN  DecorateNodes(job.tree, {tgts[i].node : i \in 1..Len(tgts)}, tgts,
                      ResolvedDetails, job.driver)

TimesSent(k) == Cardinality({i \in 1..Len(tsent) : tsent[i] = k})

\* What a decorated link of the task tree shows of its issue.
ShownDetails(id) ==
    LET n == LinkById(ttree, id)
    IN  <<Prop(PropsOf(n), "data-state"), Prop(PropsOf(n), "data-issue-title")>>

\* C22 (two links to one issue cause one remote call): in the driver that
\* starts one lookup task per matching link and awaits them together, no
\* cache key is requested more than once in a pass, however many tasks for
\* the key are in flight; and once the pass has completed, the links of one
\* key show the same details.
C22_OneRequestPerKeyInFlight ==
    job.driver = "perLink" =>
        /\ \A k \in TaskKeys : TimesSent(k) <= 1
        /\ tpc = "done" =>
             \A i, j \in 1..Len(ttargets) :
                 ttargets[i].key = ttargets[j].key =>
                     ShownDetails(ttargets[i].node) = ShownDetails(ttargets[j].node)

\* part_001:182-186: the text of the alias path repo_<i>.issue_<j>.
AliasPath(a) == "repo_" \o ToString(a[1]) \o "." \o "issue_" \o ToString(a[2])

\* The (entry, number) positions of the entries of one query.
PairsOf(entries) ==
    UNION {{<<i, j>> : j \in 1..Len(entries[i].numbers)} : i \in 1..Len(entries)}

\* The step of pass p is the arrival of the response to its batched request.
Answered(p) == Len(answers'[p]) > Len(answers[p])

\* C23 (alias demultiplexing is unambiguous): when the response to a batched
\* request arrives, every entry and issue number of the request has an alias
\* path of its own, repo_<i>.issue_<j>, that the alias map takes to that
\* entry's repository and that number, also where one repository fills
\* several entries; no two aliases stand for the same cache key; every issue
\* the response holds details for is stored under the cache key of the pair
\* its alias was generated for, with the details of that issue; and nothing
\* else is stored or changed, whatever other alias the response holds.
C23_AliasDemultiplexing ==
    [][\A p \in Passes : Answered(p) =>
          LET entries == repoChunks[p][chunkIdx[p]]
              aliasMap == buildGraphQLQuery(entries)
              ans == answers'[p][Len(answers'[p])]
              target(k) == aliasMap[CHOOSE a \in DOMAIN aliasMap : KeyOf(aliasMap[a]) = k]
          IN  /\ \A q \in PairsOf(entries) :
                    /\ <<q[1] - 1, q[2] - 1>> \in DOMAIN aliasMap
                    /\ aliasMap[<<q[1] - 1, q[2] - 1>>] =
                          [repoSlug |-> entries[q[1]].repoSlug,
                           issueNumber |-> entries[q[1]].numbers[q[2]]]
              /\ Cardinality({AliasPath(a) : a \in DOMAIN aliasMap}) =
                    Cardinality(PairsOf(entries))
              /\ \A a, b \in DOMAIN aliasMap :
                    a # b => KeyOf(aliasMap[a]) # KeyOf(aliasMap[b])
              /\ AliasPath(ForeignAlias) \notin {AliasPath(a) : a \in DOMAIN aliasMap}
              /\ ans.keys \subseteq {KeyOf(aliasMap[a]) : a \in DOMAIN aliasMap}
              /\ DOMAIN issueCache' = DOMAIN issueCache \cup ans.keys
              /\ \A k \in ans.keys :
                    issueCache'[k] =
                       GraphQLDetails(GraphQLData(target(k).repoSlug, target(k).issueNumber))
              /\ \A k \in DOMAIN issueCache \ ans.keys : issueCache'[k] = issueCache[k]]_vars

\* A response has been demultiplexed for a request in which one repository
\* fills two entries, and the issues of both entries are in the cache.
C23_Witness ==
    \E p \in Passes :
        /\ answers[p] # <<>>
        /\ \E q \in Range(SentOf(p, "graphql")) :
              \E i, j \in 1..Len(q.entries) :
                  /\ i # j
                  /\ q.entries[i].repoSlug = q.entries[j].repoSlug
                  /\ KeyOf([repoSlug |-> q.entries[i].repoSlug,
                            issueNumber |-> q.entries[i].numbers[1]]) \in DOMAIN issueCache
                  /\ KeyOf([repoSlug |-> q.entries[j].repoSlug,
                            issueNumber |-> q.entries[j].numbers[1]]) \in DOMAIN issueCache

\* The cache keys a request asks for.
AskedKeys(q) ==
    IF q.kind = "rest" THEN {q.key}
    ELSE UNION {{cacheKey(q.entries[j].repoSlug, n) : n \in Range(q.entries[j].numbers)} :
                   j \in 1..Len(q.entries)}

\* The requests a pass sends in a step.
NewlySent(p) == {sent'[p][i] : i \in (Len(sent[p]) + 1)..Len(sent'[p])}

\* C24 (cache entries are stable for the life of the process): over every
\* interleaving of the passes that share the cache, a key that is in the
\* cache stays in it with the value it has, and no request sent once a key is
\* in the cache asks for that key.
C24_CacheEntriesStable ==
    [][/\ \A k \in DOMAIN issueCache :
             k \in DOMAIN issueCache' /\ issueCache'[k] = issueCache[k]
       /\ \A p \in Passes : \A q \in NewlySent(p) :
             AskedKeys(q) \cap DOMAIN issueCache' = {}]_vars

\* The file holds the cache entry of a key.
Persisted(k) ==
    /\ disk.kind = "object"
    /\ k \in DOMAIN disk.map
    /\ disk.map[k] = issueCache[k]

\* C25 (no store is lost by a flush in progress): whatever a pass stores
\* while the write of another pass's flush is in flight, the dirty flag is
\* lowered only when the file holds every entry of the in-memory tier, so
\* that once every pass has completed the file holds every entry of the
\* in-memory tier.
C25_NoStoreLostByFlush ==
    /\ (cacheReady = "resolved" /\ ~cacheDirty) =>
           \A k \in DOMAIN issueCache : Persisted(k)
    /\ (\A p \in Passes : pc[p] = "done") =>
           \A k \in DOMAIN issueCache : Persisted(k)

\* The step is the end of the load, and it takes key k from the file.
LoadsKey(k) ==
    /\ cacheReady = "pending" /\ cacheReady' = "resolved"
    /\ disk.kind \in {"object", "array"}
    /\ k \in loaded'.keys

\* The step is the arrival of a response with details for key k.
AnswersKey(k) ==
    \E p \in Passes : Answered(p) /\ k \in answers'[p][Len(answers'[p])].keys

\* No lookup of the process has returned details so far.
NothingResolved ==
    \A p \in Passes : \A i \in 1..Len(answers[p]) : answers[p][i].keys = {}

IdentifierAt(value, start) ==
    LET from == start + 2
        stops == {j \in from..Len(value) : ~IsHandleChar(value[j])}
        last == IF stops = {} THEN Len(value)
                ELSE (CHOOSE j \in stops : \A k \in stops : j <= k) - 1
    IN  SubSeq(value, from, last)

\* C27 (only grammatical identifiers are treated as mentions): every match
\* recorded for a text node starts at an '@' whose identifier, the whole run
\* of letters, digits and hyphens that follows it, satisfies the handle
\* grammar and is the handle of the match, so that an identifier longer than
\* 39 characters or ending with a hyphen gives no match, not even for a
\* prefix of it; and the matches of one text node do not overlap and have
\* strictly increasing start positions.
C27_OnlyGrammaticalMentions ==
    \A n \in 1..Len(textMentions) :
        LET m == textMentions[n]
        IN  \A i \in 1..Len(m.hits) :
                /\ m.value[m.hits[i].start + 1] = "@"
                /\ m.hits[i].handle = IdentifierAt(m.value, m.hits[i].start)
                /\ SIMPLE_HANDLE(IdentifierAt(m.value, m.hits[i].start))
                /\ i < Len(m.hits) =>
                      /\ m.hits[i].end <= m.hits[i + 1].start
                      /\ m.hits[i].start < m.hits[i + 1].start

====
